---- MODULE Spec2Model ----
\* PageController (src/browser_utils/page_controller.py): the parameter
\* synchronizer, the session reset and the prompt submission, as a state
\* machine whose steps are the awaits of the coroutines.
EXTENDS Integers, Sequences, FiniteSets, TLC

\* ---------------------------------------------------------------- bounds
\* Number of chips the stop-sequence control may already hold.
MaxOldChips == 1
\* Number of loop tasks of the file cleanup service that are not done.
MaxLoops == 2
\* config.constants.FILE_CLEANUP_INTERVAL_HOURS: the hours between two sweeps.
FILE_CLEANUP_INTERVAL_HOURS == 2

\* ------------------------------------------------------------- constants
\* Temperatures are counted in units of 0.0005: 2.0 is 4000, 0.001 is 2.
TEMP_MIN == 0
TEMP_MAX == 4000
TEMP_EPS == 2
\* Top-p is counted in units of 0.01: 1.0 is 100; two values that differ by
\* one unit differ by more than 1e-9.
TOP_P_MIN == 0
TOP_P_MAX == 100
min_val_for_tokens == 1
HARD_MAX_TOKENS == 65536
EXTRA_REMOVALS == 5
DEFAULT_THINKING_BUDGET == 8192
max_retries_disappear == 3
\* file_cleanup.py line 115: asyncio.sleep(3600), in hours
ERROR_RETRY_HOURS == 1

Tasks == {1, 2}

\* --------------------------------------------------------------- values
\* An optional value is the empty set (None) or a singleton.
None == {}
Some(v) == {v}
The(o) == CHOOSE v \in o : TRUE

Abs(x) == IF x < 0 THEN -x ELSE x
Min2(a, b) == IF a < b THEN a ELSE b
Max2(a, b) == IF a > b THEN a ELSE b

\* The text of an input control: a number's text or a non-numeric text.
NumStr(n) == [num |-> TRUE, v |-> n]
Garbage == [num |-> FALSE, v |-> 0]
\* str(x) of a number, float(s) / int(s) of a text (None is ValueError)
str(n) == NumStr(n)
ParseNumber(s) == IF s.num THEN Some(s.v) ELSE None

\* A string is a sequence of characters.
IsSpace(c) == c = " "
RECURSIVE lstrip(_)
lstrip(s) == IF s # <<>> /\ IsSpace(Head(s)) THEN lstrip(Tail(s)) ELSE s
RECURSIVE rstrip(_)
rstrip(s) ==
  IF s # <<>> /\ IsSpace(s[Len(s)]) THEN rstrip(SubSeq(s, 1, Len(s) - 1)) ELSE s
strip(s) == rstrip(lstrip(s))

\* ------------------------------------------------------------ variables
VARIABLES
  pc,     \* pc[t]: the await task t is suspended at
  loc,    \* loc[t]: the locals of the coroutine task t runs
  cache,  \* page_params_cache of the session
  lock,   \* params_cache_lock: 0 when free, else the task holding it
  ui,     \* the live controls of the page
  adj,    \* adj[t]: what the field adjustment in progress did so far
  call,   \* call[t]: what the public call in progress observed so far
  sess,   \* what earlier calls of the session left confirmed in the page
  svc     \* the file cleanup service (src/api_utils/file_cleanup.py)

vars == <<pc, loc, cache, lock, ui, adj, call, sess, svc>>

Cache0 == [temperature |-> None, max_output_tokens |-> None, stop_sequences |-> None]

Loc0 ==
  [clamped |-> 0, stops |-> {}, removed_count |-> 0, max_removals |-> 0,
   todo |-> {}, request |-> 0, should |-> FALSE, budget |-> None,
   reasoning_effort |-> None, ENABLE_THINKING_BUDGET |-> FALSE,
   tools |-> None, ENABLE_GOOGLE_SEARCH |-> FALSE,
   attempt_disappear |-> 0, image_list |-> FALSE, shortcut_modifier |-> "none",
   original_content |-> FALSE]

Adj0 ==
  [field |-> "none", end |-> "none", waits |-> 0, reads |-> 0, writes |-> 0,
   clamped |-> 0, again |-> FALSE, request |-> 0, model_id |-> "", list |-> <<>>,
   written |-> None, stop |-> None, initial |-> 0, removes |-> 0]

\* wide: whether calls draw their requests from the wide sets or from the
\* narrow ones; history: whether the history of each call and adjustment is
\* recorded; top_p: the top-p request the last top-p adjustment confirmed in
\* the page (remembered only with the narrow sets, which leave room for it)
\* stops: the normalized set the last stop-sequence adjustment returned
\* normally with (remembered only with the narrow sets too)
\* cleared: the last call was a clear_chat_history that returned normally
\* (remembered only with the narrow sets too)
\* text: the prompt input holds a prompt that submit_prompt put there and
\* that was not submitted (the state in which the submit button is enabled,
\* lines 662-667); generating: a submission was made and its generation was
\* neither halted nor seen complete (both with the narrow sets only)
Sess0 ==
  [wide |-> TRUE, history |-> TRUE, top_p |-> None, stops |-> None,
   cleared |-> FALSE, text |-> FALSE, generating |-> FALSE]
\* The session when the running call confirms no top-p
NoTopP(s) == [s EXCEPT !.top_p = None]
\* The set a request or a live value is drawn from
Drawn(wide, narrow) == IF sess.wide THEN wide ELSE narrow

\* What a call did to the toggle it is at, or was last at: the toggle, the
\* state wanted, aria-checked as read at the start, the clicks sent, how the
\* click and the checkpoint after it ended, aria-checked as read again
Toggle0 ==
  [control |-> "none", should |-> FALSE, read |-> "unread", clicks |-> 0,
   click |-> "none", reread |-> "unread"]

\* clicked: the controls the call clicked; skip: what a clear_chat_history
\* call that found the clear button disabled saw in the address; prior:
\* whether the preceding call of the session was a clear_chat_history that
\* returned normally; overlay: what the call saw of the confirmation overlay;
\* attempts, sleeps, hidden: the polls for the dialog to disappear, the
\* pauses between them, and what the last poll saw of <<confirm, overlay>>;
\* enabled: how the wait of submit_prompt for the submit button ended;
\* shortcut: what _try_shortcut_submit returned; click: how the click of
\* submit_prompt on the submit button ended; original: the prompt input held
\* text before the chord; empty, disabled, container: what the verification
\* after the chord saw of the prompt input being blank, the submit button
\* being disabled and a response container being visible ("yes", "no"),
\* or that the read raised ("raised"); methods: the upload methods tried, in
\* the order they were tried, each with how it ended; indicator: whether an
\* indicator of an upload was there after the files were assigned to a file
\* input; completion: what the completion detection of get_response
\* returned; extracted, content: how the extraction of get_response ended and
\* what it returned; value: what get_response returned; toggle: see Toggle0
Call0 ==
  [op |-> "none", disc |-> FALSE, mutAfter |-> FALSE, fail |-> FALSE,
   snap |-> FALSE, result |-> "none", clicked |-> {}, skip |-> "none",
   prior |-> FALSE, overlay |-> "none", attempts |-> 0, sleeps |-> 0,
   hidden |-> <<FALSE, FALSE>>, enabled |-> "none", shortcut |-> "none",
   click |-> "none", original |-> FALSE, empty |-> "none", disabled |-> "none",
   container |-> "none", methods |-> <<>>, indicator |-> "none",
   completion |-> "none", extracted |-> "none", content |-> None, value |-> None,
   toggle |-> Toggle0, hint |-> "unread", platform_read |-> "unasked",
   platform |-> <<>>, agent_read |-> "unasked", agent |-> "", modifier |-> "none",
   triggered |-> FALSE, filled |-> FALSE, prestep |-> "none",
   counts |-> [clear |-> 0, confirm |-> 0], assignments |-> 0,
   function_btn |-> "none"]

Ui0 ==
  [temperature |-> Garbage, max_tokens |-> Garbage, top_p |-> Garbage,
   chips |-> {}, budget |-> Garbage]

\* ------------------------------------------------------ ghost bookkeeping
\* a checkpoint returned d
Checked(c, d) == IF sess.history THEN [c EXCEPT !.disc = c.disc \/ d] ELSE c
\* a fill, click or key press was sent to the page
Mutated(c) == IF sess.history THEN [c EXCEPT !.mutAfter = c.mutAfter \/ c.disc] ELSE c
\* a failure other than abandonment was caught
Failed(c) == IF sess.history THEN [c EXCEPT !.fail = TRUE] ELSE c
\* save_error_snapshot was called
Snapped(c) == IF sess.history THEN [c EXCEPT !.snap = TRUE] ELSE c

\* a control was clicked
Clicked(c, control) ==
  IF sess.history THEN [c EXCEPT !.clicked = c.clicked \cup {control}] ELSE c
\* a click was sent to the clear or to the confirm button (counted up to 2)
ClickCounted(c, control) ==
  IF ~sess.wide /\ sess.history
  THEN [c EXCEPT !.counts[control] = Min2(c.counts[control] + 1, 2)] ELSE c
\* the clear button stayed disabled and the address was looked at
Skipped(c, is_new_chat_url) ==
  IF sess.history
  THEN [c EXCEPT !.skip = IF is_new_chat_url THEN "new_chat" ELSE "not_new_chat"]
  ELSE c
\* something was seen of the confirmation overlay
Overlay(c, seen) == IF sess.history THEN [c EXCEPT !.overlay = seen] ELSE c
\* a poll for the dialog to disappear ended; a pause of 1 s was taken (the
\* polls are counted up to one more than the code allows, the pauses too)
Polled(c, confirm_hidden, overlay_hidden) ==
  IF sess.history
  THEN [c EXCEPT !.attempts = Min2(c.attempts + 1, max_retries_disappear + 1),
                 !.hidden = <<confirm_hidden, confirm_hidden /\ overlay_hidden>>]
  ELSE c
Slept(c) ==
  IF sess.history THEN [c EXCEPT !.sleeps = Min2(c.sleeps + 1, max_retries_disappear)]
  ELSE c
\* the wait of submit_prompt for the submit button ended
Enabled(c, ok) ==
  IF sess.history THEN [c EXCEPT !.enabled = IF ok THEN "ok" ELSE "failed"] ELSE c
\* The steps of submit_prompt are recorded in detail with the narrow sets
\* only, which leave room for it
Detailed == ~sess.wide /\ sess.history
\* HOST_OS_FOR_SHORTCUT was read
Hinted(c, host_os_from_launcher) ==
  IF Detailed THEN [c EXCEPT !.hint = host_os_from_launcher] ELSE c
\* the page was asked for userAgentData.platform and answered or raised
AskedPlatform(c, ok, user_agent_data_platform) ==
  IF Detailed
  THEN [c EXCEPT !.platform_read = IF ok THEN "returned" ELSE "raised",
                 !.platform = IF ok THEN user_agent_data_platform ELSE <<>>]
  ELSE c
\* the page was asked for the user agent and answered or raised
AskedAgent(c, ok, user_agent_string_lower) ==
  IF Detailed
  THEN [c EXCEPT !.agent_read = IF ok THEN "returned" ELSE "raised",
                 !.agent = IF ok THEN user_agent_string_lower ELSE ""]
  ELSE c
\* the modifier key of the chord was chosen
Chose(c, shortcut_modifier) ==
  IF Detailed THEN [c EXCEPT !.modifier = shortcut_modifier] ELSE c
\* the chord was sent, and the page took it for a submission or not
Pressed(c, triggered) == IF Detailed THEN [c EXCEPT !.triggered = triggered] ELSE c
\* _try_shortcut_submit returned
Returned(c, submitted_successfully) ==
  IF Detailed
  THEN [c EXCEPT !.shortcut = IF submitted_successfully THEN "True" ELSE "False"]
  ELSE c
\* the click of submit_prompt on the submit button returned or raised
ClickEnded(c, ok) ==
  IF Detailed THEN [c EXCEPT !.click = IF ok THEN "ok" ELSE "failed"] ELSE c
\* the prompt input was read before the chord
Original(c, nonempty) == IF Detailed THEN [c EXCEPT !.original = nonempty] ELSE c
\* a read of the verification after the chord ended
Seen(c, signal, ok, holds) ==
  IF Detailed
  THEN [c EXCEPT ![signal] = IF ~ok THEN "raised" ELSE IF holds THEN "yes" ELSE "no"]
  ELSE c
\* an upload method was tried and ended with `result`
Tried(c, method, result) ==
  IF Detailed THEN [c EXCEPT !.methods = Append(c.methods, <<method, result>>)]
  ELSE c
\* _find_and_click_function_button returned
FunctionButton(c, function_btn_found) ==
  IF Detailed
  THEN [c EXCEPT !.function_btn = IF function_btn_found THEN "found" ELSE "not_found"]
  ELSE c
\* the files were handed to n file inputs or file choosers (counted up to 3)
HandedOver(c, n) ==
  IF Detailed THEN [c EXCEPT !.assignments = Min2(c.assignments + n, 3)] ELSE c
\* the files were assigned to a file input and the indicators looked for
Assigned(c, assigned, indicator) ==
  IF Detailed /\ assigned
  THEN [c EXCEPT !.indicator = IF indicator THEN "present" ELSE "absent"]
  ELSE c
\* the completion detection of get_response returned
Completed(c, completion_detected) ==
  IF Detailed
  THEN [c EXCEPT !.completion = IF completion_detected THEN "True" ELSE "False"]
  ELSE c
\* the extraction of get_response returned final_content, or raised
Extracted(c, ok, final_content) ==
  IF Detailed
  THEN [c EXCEPT !.extracted = IF ok THEN "returned" ELSE "raised",
                 !.content = IF ok THEN final_content ELSE None]
  ELSE c
\* get_response returned `value`: a text, or None
Value(c, value) == IF Detailed THEN [c EXCEPT !.value = value] ELSE c
\* the call comes to a toggle, wanting it in the state `should`
AtToggle(c, control, should) ==
  IF Detailed
  THEN [c EXCEPT !.toggle = [Toggle0 EXCEPT !.control = control, !.should = should]]
  ELSE c
\* aria-checked was read at the start, and again after the click ("raised"
\* when the read raised)
ToggleRead(c, is_checked_str) ==
  IF Detailed THEN [c EXCEPT !.toggle.read = is_checked_str] ELSE c
ToggleReread(c, new_state) ==
  IF Detailed THEN [c EXCEPT !.toggle.reread = new_state] ELSE c
\* a click was sent to the toggle and ended: "failed", "abandoned" at the
\* checkpoint after it, or "passed"
ToggleClicked(c, end) ==
  IF Detailed
  THEN [c EXCEPT !.toggle.clicks = Min2(c.toggle.clicks + 1, 2), !.toggle.click = end]
  ELSE c
\* submit_prompt put the prompt into the input
PromptFilled(c) == IF Detailed THEN [c EXCEPT !.filled = TRUE] ELSE c
\* the click of clear_chat_history on the submit/stop button went through:
\* it halted a generation, submitted the prompt left in the input, or met
\* neither
PreStep(c, ok) ==
  IF Detailed /\ ok
  THEN [c EXCEPT !.prestep = IF sess.generating THEN "halted"
                             ELSE IF sess.text THEN "started" ELSE "idle"]
  ELSE c
\* Is a prompt left in the input, is a generation running, after call c
TextAfter(s, c) ==
  IF c.op = "submit_prompt" /\ c.filled THEN ~(c.triggered \/ c.click = "ok")
  ELSE IF c.op = "clear_chat_history" /\ c.prestep = "started" THEN FALSE
  ELSE s.text
GeneratingAfter(s, c) ==
  IF c.op = "submit_prompt" /\ (c.triggered \/ c.click = "ok")
  THEN ~(c.triggered /\ c.click = "ok")
  ELSE IF c.op = "clear_chat_history" /\ c.prestep # "none" THEN c.prestep = "started"
  ELSE IF c.op = "get_response" /\ c.completion = "True" THEN FALSE
  ELSE s.generating
\* the session after a call ended with `result`
AfterCall(s, c, result) ==
  IF ~s.wide /\ s.history
  THEN [s EXCEPT !.cleared = (c.op = "clear_chat_history" /\ result = "ok"),
                 !.text = TextAfter(s, c),
                 !.generating = GeneratingAfter(s, c)]
  ELSE s

\* the adjustment of a field begins, and ends in a way
Began(field, clamped) ==
  IF sess.history THEN [Adj0 EXCEPT !.field = field, !.clamped = clamped] ELSE Adj0
Ended(a, end) == IF sess.history THEN [a EXCEPT !.end = end] ELSE a
\* a wait for, a read of, a write to the control of the adjustment
Waited(a) == IF sess.history THEN [a EXCEPT !.waits = Min2(a.waits + 1, 2)] ELSE a
ReadUi(a) == IF sess.history THEN [a EXCEPT !.reads = Min2(a.reads + 1, 2)] ELSE a
Wrote(a) == IF sess.history THEN [a EXCEPT !.writes = Min2(a.writes + 1, 2)] ELSE a
\* the adjustment was asked for a value, with the model and catalog in force
Asked(a, request, model_id, list) ==
  IF sess.history
  THEN [a EXCEPT !.request = request, !.model_id = model_id, !.list = list]
  ELSE a
\* the stop-sequence adjustment was asked for stop_sequences
AskedStops(a, stop_sequences) ==
  IF sess.history THEN [a EXCEPT !.stop = Some(stop_sequences)] ELSE a
\* the session after an adjustment of `field` ended: a stop-sequence
\* adjustment leaves the set it returned with, or none when it failed
AfterField(s, field, stops) ==
  IF field = "stop_sequences" /\ ~s.wide /\ s.history
  THEN [s EXCEPT !.stops = stops] ELSE s
\* the chips were counted before the removal loop
CountedChips(a, initial_chip_count) ==
  IF ~sess.wide /\ sess.history THEN [a EXCEPT !.initial = initial_chip_count] ELSE a
\* a click was sent to a remove button (counted up to one more than `most`)
RemoveClicked(a, most) ==
  IF ~sess.wide /\ sess.history
  THEN [a EXCEPT !.removes = Min2(a.removes + 1, most + 1)] ELSE a
\* fill(text) was sent to the control of the adjustment
Filled(a, text) == IF sess.history THEN [Wrote(a) EXCEPT !.written = Some(text)] ELSE a

\* ------------------------------------------------------- shared helpers
\* A checkpoint that never raises
check_disconnect_ignored(d) == FALSE
\* _check_disconnect: the predicate's answer d raises ClientDisconnectedError
check_disconnect(d) == d

\* `if isinstance(e, ClientDisconnectedError): raise` of the except clauses
reraise(kind) == kind = "ClientDisconnectedError"

\* An except clause that leaves the entry where it is
keep_entry(c, field) == c
\* An except clause that empties the cache
evict_all(c, field) == Cache0
\* page_params_cache.pop(field, None)
evict(c, field) == [c EXCEPT ![field] = None]

\* An adjustment that does not wait for the lock
lock_ignored(l) == TRUE
\* `async with params_cache_lock`: entry and exit
lock_free(l) == l = 0
lock_acquire(t) == t
\* An exit that leaves the lock as it is
lock_kept == lock
lock_release == 0

\* The call of task t ends: it returns (result "ok") or raises. The page is
\* not watched between calls.
EndCall(t, c, result) ==
  /\ pc' = [pc EXCEPT ![t] = "idle"]
  /\ call' = [call EXCEPT ![t] = [c EXCEPT !.result = result]]
  /\ loc' = [loc EXCEPT ![t] = Loc0]
  /\ ui' = Ui0
  /\ svc' = svc

\* Task t goes on to the await `next` with locals l; the page is now u.
Goto(t, next, l, c, u) ==
  /\ pc' = [pc EXCEPT ![t] = next]
  /\ call' = [call EXCEPT ![t] = c]
  /\ loc' = [loc EXCEPT ![t] = l]
  /\ ui' = u
  /\ svc' = svc

\* ------------------------------------------------------ adjust_parameters
\* The requested values a call may carry, and what the controls may show.
Temperatures == {-400, 1000, 4400}
UiTemperatures == {NumStr(0), NumStr(1001), NumStr(3000), Garbage}

\* What a control may show after fill(text): the text, the old text (the
\* write was silently dropped) or no number.
AfterFill(old, n) == {str(n), old, Garbage}

\* lines 40-43: entry and the first checkpoint
adjust_parameters(t) ==
  /\ pc[t] = "idle"
  /\ \E d \in BOOLEAN :
       LET c == Checked([Call0 EXCEPT !.op = "adjust_parameters",
                                      !.result = "running"], d) IN
       IF check_disconnect(d)
       THEN EndCall(t, c, "ClientDisconnectedError") /\ sess' = NoTopP(sess)
       ELSE Goto(t, "temp_lock", Loc0, c, Ui0) /\ sess' = sess
  /\ adj' = [adj EXCEPT ![t] = Adj0]
  /\ UNCHANGED <<cache, lock>>

\* A checkpoint of adjust_parameters between two steps (lines 48, 53, 58):
\* abandon, or go on to `next`. The control just adjusted is no longer watched
\* and the record of its adjustment is dropped.
checkpoint_between(t, next, control) ==
  /\ \E d \in BOOLEAN :
       LET c == Checked(call[t], d) IN
       IF check_disconnect(d)
       THEN EndCall(t, c, "ClientDisconnectedError") /\ sess' = NoTopP(sess)
       ELSE Goto(t, next, Loc0, c, [ui EXCEPT ![control] = Ui0[control]]) /\ sess' = sess
  /\ adj' = [adj EXCEPT ![t] = Adj0]
  /\ UNCHANGED <<cache, lock>>

\* The exits of a locked field adjustment through its except clauses
\* (lines 318-327, 386-395, 450-455): evict, snapshot, re-raise abandonment.
field_except(t, field, next, kind, a, c) ==
  /\ cache' = evict(cache, field)
  /\ lock' = lock_release
  /\ adj' = [adj EXCEPT ![t] = Ended(a, kind)]
  /\ IF reraise(kind)
     THEN EndCall(t, Snapped(c), kind) /\ sess' = AfterField(NoTopP(sess), field, None)
     ELSE Goto(t, next, Loc0, Snapped(Failed(c)), ui)
          /\ sess' = AfterField(sess, field, None)

\* The normal exit of a locked field adjustment: the cache becomes newcache.
field_return(t, next, end, newcache, a, c, u) ==
  /\ cache' = newcache
  /\ lock' = lock_release
  /\ adj' = [adj EXCEPT ![t] = Ended(a, end)]
  /\ Goto(t, next, Loc0, c, u)
  /\ sess' = AfterField(sess, a.field, newcache.stop_sequences)

\* A step inside an adjustment: on to the await `next`.
field_step(t, next, l, a, c, u) ==
  /\ Goto(t, next, l, c, u)
  /\ adj' = [adj EXCEPT ![t] = a]
  /\ UNCHANGED <<cache, lock, sess>>

\* ---- _adjust_temperature (lines 271-327)
\* A request that is passed on as it came
temperature_unclamped(temperature) == temperature
\* line 275
clamp_temperature(temperature) == Max2(TEMP_MIN, Min2(TEMP_MAX, temperature))

\* A cache that is never consulted
temperature_cache_never_hit(cached, clamped) == FALSE
\* line 280: the cache short-circuit
temperature_cache_hit(cached, clamped) ==
  cached # None /\ Abs(The(cached) - clamped) < TEMP_EPS

\* A verification that accepts whatever the control shows
temperature_always_matches(value, clamped) == TRUE
\* lines 298 and 310: the live value agrees with the request
temperature_matches(value, clamped) == Abs(value - clamped) < TEMP_EPS

\* lines 273-285: take the lock, clamp, consult the cache
adjust_temperature(t) ==
  /\ pc[t] = "temp_lock"
  /\ lock_free(lock)
  /\ \E temperature \in Drawn(Temperatures, {1000}) :
       LET clamped_temp == clamp_temperature(temperature)
           a == Asked(Began("temperature", clamped_temp), temperature, "", <<>>)
       IN
       IF temperature_cache_hit(cache.temperature, clamped_temp)
       THEN /\ adj' = [adj EXCEPT ![t] = Ended(a, "hit")]
            /\ Goto(t, "after_temp", Loc0, call[t], ui)
            /\ UNCHANGED <<cache, lock, sess>>
       ELSE /\ adj' = [adj EXCEPT ![t] = a]
            /\ lock' = lock_acquire(t)
            /\ Goto(t, "temp_visible", [Loc0 EXCEPT !.clamped = clamped_temp],
                    call[t], ui)
            /\ UNCHANGED <<cache, sess>>

\* lines 289-290: wait for the input, checkpoint
adjust_temperature_visible(t) ==
  /\ pc[t] = "temp_visible"
  /\ \E ok \in BOOLEAN, d \in BOOLEAN :
       LET a == Waited(adj[t])
           c == Checked(call[t], d) IN
       IF ~ok THEN field_except(t, "temperature", "after_temp", "Exception", a, call[t])
       ELSE IF check_disconnect(d)
       THEN field_except(t, "temperature", "after_temp", "ClientDisconnectedError", a, c)
       ELSE field_step(t, "temp_read", loc[t], a, c, ui)

\* lines 292-303: read the live value, checkpoint, parse, compare
adjust_temperature_read(t) ==
  /\ pc[t] = "temp_read"
  /\ \E ok \in BOOLEAN, d \in BOOLEAN,
        live \in Drawn(UiTemperatures, {NumStr(1000), NumStr(3000)}) :
       LET a == ReadUi(adj[t])
           c == Checked(call[t], d)
           u == [ui EXCEPT !.temperature = live]
           current_temp_float == ParseNumber(live) IN
       IF ~ok THEN field_except(t, "temperature", "after_temp", "Exception", a, call[t])
       ELSE IF check_disconnect(d)
       THEN field_except(t, "temperature", "after_temp", "ClientDisconnectedError", a, c)
       ELSE IF current_temp_float = None
       THEN field_except(t, "temperature", "after_temp", "ValueError", a, c)
       ELSE IF temperature_matches(The(current_temp_float), loc[t].clamped)
       THEN field_return(t, "after_temp", "read",
              [cache EXCEPT !.temperature = current_temp_float], a, c, u)
       ELSE field_step(t, "temp_fill", loc[t], a, c, u)

\* lines 303-304: fill, checkpoint
adjust_temperature_fill(t) ==
  /\ pc[t] = "temp_fill"
  /\ \E ok \in BOOLEAN, d \in BOOLEAN, shown \in AfterFill(ui.temperature, loc[t].clamped) :
       LET a == Filled(adj[t], str(loc[t].clamped))
           c == Checked(Mutated(call[t]), d)
           u == [ui EXCEPT !.temperature = shown] IN
       IF ~ok
       THEN field_except(t, "temperature", "after_temp", "Exception", a, Mutated(call[t]))
       ELSE IF check_disconnect(d)
       THEN field_except(t, "temperature", "after_temp", "ClientDisconnectedError", a, c)
       ELSE field_step(t, "temp_verify", loc[t], a, c, u)

\* lines 306-316: settle, read back, compare, commit or evict
adjust_temperature_verify(t) ==
  /\ pc[t] = "temp_verify"
  /\ \E ok \in BOOLEAN :
       LET a == ReadUi(adj[t])
           new_temp_float == ParseNumber(ui.temperature) IN
       IF ~ok
       THEN field_except(t, "temperature", "after_temp", "Exception", a, call[t])
       ELSE IF new_temp_float = None
       THEN field_except(t, "temperature", "after_temp", "ValueError", a, call[t])
       ELSE IF temperature_matches(The(new_temp_float), loc[t].clamped)
       THEN field_return(t, "after_temp", "verified",
              [cache EXCEPT !.temperature = new_temp_float], a, call[t], ui)
       ELSE field_return(t, "after_temp", "mismatch",
              evict(cache, "temperature"), a, Snapped(Failed(call[t])), ui)

\* line 48: the checkpoint after the temperature
after_temperature(t) ==
  /\ pc[t] = "after_temp"
  /\ checkpoint_between(t, "max_lock", "temperature")

\* ---- _adjust_max_tokens (lines 329-395)
\* The catalog of models and the ids a call may name. supported is the
\* optional text of supported_max_output_tokens.
parsed_model_list ==
  << [id |-> "m-small", supported |-> Some(NumStr(8192))],
     [id |-> "m-zero", supported |-> Some(NumStr(0))],
     [id |-> "m-bad", supported |-> Some(Garbage)],
     [id |-> "m-none", supported |-> None] >>
ModelLists == {<<>>, parsed_model_list}
ModelIds == {"", "m-small", "m-zero", "m-bad", "m-none", "m-unknown"}
MaxTokens == {0, 100, 70000}
UiMaxTokens == {NumStr(100), NumStr(2048), Garbage}

\* line 337: next((m for m in parsed_model_list if m.get("id") == id), None)
RECURSIVE find_model(_, _)
find_model(list, id) ==
  IF list = <<>> THEN None
  ELSE IF Head(list).id = id THEN Some(Head(list))
  ELSE find_model(Tail(list), id)

\* lines 333-346: the ceiling the model supports, 65536 when unknown
max_val_for_tokens_from_model(model_id_to_use, list) ==
  IF model_id_to_use = "" \/ list = <<>> THEN HARD_MAX_TOKENS
  ELSE LET current_model_data == find_model(list, model_id_to_use) IN
       IF current_model_data = None \/ The(current_model_data).supported = None
       THEN HARD_MAX_TOKENS
       ELSE LET supported_tokens == ParseNumber(The(The(current_model_data).supported)) IN
            IF supported_tokens # None /\ The(supported_tokens) > 0
            THEN The(supported_tokens)
            ELSE HARD_MAX_TOKENS

\* line 348
clamp_max_tokens(max_tokens, ceiling) ==
  Max2(min_val_for_tokens, Min2(ceiling, max_tokens))

\* line 353: the cache short-circuit
max_tokens_cache_hit(cached, clamped) == cached # None /\ The(cached) = clamped

\* A comparison that takes every live value for a different one
max_tokens_never_matches(value, clamped) == FALSE
\* lines 366 and 378: the live value agrees with the request
max_tokens_matches(value, clamped) == value = clamped

\* lines 331-357: take the lock, clamp, consult the cache
adjust_max_tokens(t) ==
  /\ pc[t] = "max_lock"
  /\ lock_free(lock)
  /\ \E max_tokens \in Drawn(MaxTokens, {100}), model_id_to_use \in Drawn(ModelIds, {""}),
        list \in Drawn(ModelLists, {<<>>}) :
       LET clamped_max_tokens ==
             clamp_max_tokens(max_tokens, max_val_for_tokens_from_model(model_id_to_use, list))
           a == Asked(Began("max_output_tokens", clamped_max_tokens),
                      max_tokens, model_id_to_use, list)
       IN
       IF max_tokens_cache_hit(cache.max_output_tokens, clamped_max_tokens)
       THEN /\ adj' = [adj EXCEPT ![t] = Ended(a, "hit")]
            /\ Goto(t, "after_max", Loc0, call[t], ui)
            /\ UNCHANGED <<cache, lock, sess>>
       ELSE /\ adj' = [adj EXCEPT ![t] = a]
            /\ lock' = lock_acquire(t)
            /\ Goto(t, "max_visible", [Loc0 EXCEPT !.clamped = clamped_max_tokens],
                    call[t], ui)
            /\ UNCHANGED <<cache, sess>>

\* lines 360-361: wait for the input, checkpoint
adjust_max_tokens_visible(t) ==
  /\ pc[t] = "max_visible"
  /\ \E ok \in BOOLEAN, d \in BOOLEAN :
       LET a == Waited(adj[t])
           c == Checked(call[t], d) IN
       IF ~ok THEN field_except(t, "max_output_tokens", "after_max", "Exception", a, call[t])
       ELSE IF check_disconnect(d)
       THEN field_except(t, "max_output_tokens", "after_max", "ClientDisconnectedError", a, c)
       ELSE field_step(t, "max_read", loc[t], a, c, ui)

\* lines 363-371: read the live value, parse, compare (no checkpoint here)
adjust_max_tokens_read(t) ==
  /\ pc[t] = "max_read"
  /\ \E ok \in BOOLEAN, live \in Drawn(UiMaxTokens, {NumStr(100), NumStr(2048)}) :
       LET a == ReadUi(adj[t])
           u == [ui EXCEPT !.max_tokens = live]
           current_max_tokens_int == ParseNumber(live) IN
       IF ~ok
       THEN field_except(t, "max_output_tokens", "after_max", "Exception", a, call[t])
       ELSE IF current_max_tokens_int = None
       THEN field_except(t, "max_output_tokens", "after_max", "ValueError", a, call[t])
       ELSE IF max_tokens_matches(The(current_max_tokens_int), loc[t].clamped)
       THEN field_return(t, "after_max", "read",
              [cache EXCEPT !.max_output_tokens = current_max_tokens_int], a, call[t], u)
       ELSE field_step(t, "max_fill", loc[t], a, call[t], u)

\* lines 371-372: fill, checkpoint
adjust_max_tokens_fill(t) ==
  /\ pc[t] = "max_fill"
  /\ \E ok \in BOOLEAN, d \in BOOLEAN, shown \in AfterFill(ui.max_tokens, loc[t].clamped) :
       LET a == Filled(adj[t], str(loc[t].clamped))
           c == Checked(Mutated(call[t]), d)
           u == [ui EXCEPT !.max_tokens = shown] IN
       IF ~ok
       THEN field_except(t, "max_output_tokens", "after_max", "Exception", a,
              Mutated(call[t]))
       ELSE IF check_disconnect(d)
       THEN field_except(t, "max_output_tokens", "after_max", "ClientDisconnectedError", a, c)
       ELSE field_step(t, "max_verify", loc[t], a, c, u)

\* lines 374-384: settle, read back, compare, commit or evict
adjust_max_tokens_verify(t) ==
  /\ pc[t] = "max_verify"
  /\ \E ok \in BOOLEAN :
       LET a == ReadUi(adj[t])
           new_max_tokens_int == ParseNumber(ui.max_tokens) IN
       IF ~ok
       THEN field_except(t, "max_output_tokens", "after_max", "Exception", a, call[t])
       ELSE IF new_max_tokens_int = None
       THEN field_except(t, "max_output_tokens", "after_max", "ValueError", a, call[t])
       ELSE IF max_tokens_matches(The(new_max_tokens_int), loc[t].clamped)
       THEN field_return(t, "after_max", "verified",
              [cache EXCEPT !.max_output_tokens = new_max_tokens_int], a, call[t], ui)
       ELSE field_return(t, "after_max", "mismatch",
              evict(cache, "max_output_tokens"), a, Snapped(Failed(call[t])), ui)

\* line 53: the checkpoint after the max output tokens
after_max_tokens(t) ==
  /\ pc[t] = "after_max"
  /\ checkpoint_between(t, "stop_lock", "max_tokens")

\* ---- _adjust_stop_sequences (lines 397-455)
\* The value of request_params['stop']: None, one string, or a list whose
\* items are strings or something else.
Item(s) == [isstr |-> TRUE, s |-> s]
NotStr == [isstr |-> FALSE, s |-> <<>>]
StopNone == [kind |-> "none", s |-> <<>>, l |-> <<>>]
StopStr(s) == [kind |-> "str", s |-> s, l |-> <<>>]
StopList(l) == [kind |-> "list", s |-> <<>>, l |-> l]
StopRequests ==
  { StopNone,
    StopStr(<<" ", "a">>),
    StopList(<<Item(<<"a">>), Item(<<"a">>), Item(<<" ", "b", " ">>)>>),
    StopList(<<NotStr, Item(<<" ">>)>>) }

NarrowStopRequests ==
  { StopStr(<<" ", "a">>),
    StopList(<<Item(<<"a">>), Item(<<"a">>), Item(<<" ", "b", " ">>)>>) }

\* The chips the control may hold when the adjustment first looks at it.
OldChips == { [j \in 1..i |-> "x"] : i \in 1..MaxOldChips }
InitialChips == SUBSET (OldChips \cup {<<"a">>})

\* lines 411-413
RECURSIVE normalize_list(_)
normalize_list(l) ==
  IF l = <<>> THEN {}
  ELSE (IF Head(l).isstr /\ strip(Head(l).s) # <<>> THEN {strip(Head(l).s)} ELSE {})
       \cup normalize_list(Tail(l))

\* lines 403-413
normalize_stops(stop_sequences) ==
  CASE stop_sequences.kind = "str" ->
         IF strip(stop_sequences.s) # <<>> THEN {strip(stop_sequences.s)} ELSE {}
    [] stop_sequences.kind = "list" -> normalize_list(stop_sequences.l)
    [] OTHER -> {}

\* A cache that is never consulted
stop_cache_never_hit(cached, normalized) == FALSE
\* line 417: the cache short-circuit
stop_cache_hit(cached, normalized) == cached # None /\ The(cached) = normalized

\* lines 399-422: take the lock, normalize, consult the cache
adjust_stop_sequences(t) ==
  /\ pc[t] = "stop_lock"
  /\ lock_free(lock)
  /\ \E stop_sequences \in Drawn(StopRequests, NarrowStopRequests) :
       LET normalized_requested_stops == normalize_stops(stop_sequences)
           a == [AskedStops(Began("stop_sequences", 0), stop_sequences) EXCEPT
                   !.again = (sess.stops = Some(normalized_requested_stops))]
       IN
       IF stop_cache_hit(cache.stop_sequences, normalized_requested_stops)
       THEN /\ adj' = [adj EXCEPT ![t] = Ended(a, "hit")]
            /\ Goto(t, "after_stop", Loc0, call[t], ui)
            /\ sess' = AfterField(sess, "stop_sequences", cache.stop_sequences)
            /\ UNCHANGED <<cache, lock>>
       ELSE /\ adj' = [adj EXCEPT ![t] = a]
            /\ lock' = lock_acquire(t)
            /\ Goto(t, "stop_count",
                    [Loc0 EXCEPT !.stops = normalized_requested_stops,
                                 !.todo = normalized_requested_stops], call[t], ui)
            /\ UNCHANGED <<cache, sess>>

\* lines 426-428: count the chips present
adjust_stop_sequences_count(t) ==
  /\ pc[t] = "stop_count"
  /\ \E ok \in BOOLEAN, chips \in Drawn(InitialChips, {{}, {<<"x">>}}) :
       LET a == ReadUi(adj[t]) IN
       IF ~ok
       THEN field_except(t, "stop_sequences", "after_stop", "Exception", a, call[t])
       ELSE field_step(t, "stop_remove",
              [loc[t] EXCEPT !.removed_count = 0,
                             !.max_removals = Cardinality(chips) + EXTRA_REMOVALS],
              CountedChips(a, Cardinality(chips)), call[t], [ui EXCEPT !.chips = chips])

\* lines 440-448, reached when the removal loop is left: nothing to add
\* commits the empty set at once, otherwise the input is awaited.
stop_after_removal(t, a, c) ==
  IF loc[t].stops = {}
  THEN field_return(t, "after_stop", "set",
         [cache EXCEPT !.stop_sequences = Some(loc[t].stops)], a, c, ui)
  ELSE field_step(t, "stop_visible", loc[t], a, c, ui)

\* What the chips may be after a click on the first remove button: one chip
\* fewer, the same chips (the page ignored the click), or one chip more (the
\* page added one meanwhile).
AfterRemove(chips) ==
  {chips \ {x} : x \in chips} \cup {chips}
    \cup {chips \cup {x} : x \in OldChips \cup {<<"a">>}}

\* A loop that goes on as long as a chip is left
removal_unbounded(count, removed_count, max_removals) == count > 0
\* line 430: `count() > 0 and removed_count < max_removals`
removal_continues(count, removed_count, max_removals) ==
  count > 0 /\ removed_count < max_removals

\* lines 430-437: one turn of the removal loop
adjust_stop_sequences_remove(t) ==
  /\ pc[t] = "stop_remove"
  /\ \E counted \in BOOLEAN, d \in BOOLEAN, clicked \in BOOLEAN,
        chips \in AfterRemove(ui.chips) :
       LET a == ReadUi(adj[t])
           c == Checked(call[t], d) IN
       IF ~counted
       THEN field_except(t, "stop_sequences", "after_stop", "Exception", a, call[t])
       ELSE IF ~removal_continues(Cardinality(ui.chips), loc[t].removed_count,
                                  loc[t].max_removals)
       THEN stop_after_removal(t, a, call[t])
       ELSE IF check_disconnect(d)
       THEN field_except(t, "stop_sequences", "after_stop", "ClientDisconnectedError", a, c)
       ELSE IF ~clicked
       THEN stop_after_removal(t, RemoveClicked(Wrote(a), loc[t].max_removals), Mutated(c))
       ELSE field_step(t, "stop_remove",
              [loc[t] EXCEPT !.removed_count = loc[t].removed_count + 1],
              RemoveClicked(Wrote(a), loc[t].max_removals), Mutated(c),
              [ui EXCEPT !.chips = chips])

\* line 441: wait for the input
adjust_stop_sequences_visible(t) ==
  /\ pc[t] = "stop_visible"
  /\ \E ok \in BOOLEAN :
       LET a == Waited(adj[t]) IN
       IF ~ok
       THEN field_except(t, "stop_sequences", "after_stop", "Exception", a, call[t])
       ELSE field_step(t, "stop_add", loc[t], a, call[t], ui)

\* lines 442-448: type one sequence and press Enter; after the last one the
\* requested set is committed to the cache
adjust_stop_sequences_add(t) ==
  /\ pc[t] = "stop_add"
  /\ \E seq \in loc[t].todo, ok \in BOOLEAN, taken \in BOOLEAN :
       LET a == Wrote(adj[t])
           c == Mutated(call[t])
           rest == loc[t].todo \ {seq}
           u == [ui EXCEPT !.chips = IF taken THEN ui.chips \cup {seq} ELSE ui.chips] IN
       IF ~ok
       THEN field_except(t, "stop_sequences", "after_stop", "Exception", a, c)
       ELSE IF rest = {}
       THEN field_return(t, "after_stop", "set",
              [cache EXCEPT !.stop_sequences = Some(loc[t].stops)], a, c, u)
       ELSE field_step(t, "stop_add", [loc[t] EXCEPT !.todo = rest], a, c, u)

\* line 58: the checkpoint after the stop sequences
after_stop_sequences(t) ==
  /\ pc[t] = "after_stop"
  /\ checkpoint_between(t, "topp_visible", "chips")

\* ---- _adjust_top_p (lines 457-498): no cache, no lock
TopPs == {-10, 95, 150}
UiTopPs == {NumStr(95), NumStr(50), Garbage}

\* line 460
clamp_top_p(top_p) == Max2(TOP_P_MIN, Min2(TOP_P_MAX, top_p))

\* A comparison that takes every live value for the requested one
top_p_never_differs(value, clamped) == FALSE
\* lines 473 and 483: abs(value - clamped) > 1e-9
top_p_differs(value, clamped) == value # clamped

\* The exits through the except clauses (lines 491-498): snapshot, re-raise
\* abandonment. Nothing is remembered of a top-p that was not confirmed.
top_p_except(t, kind, a, c) ==
  /\ adj' = [adj EXCEPT ![t] = Ended(a, kind)]
  /\ sess' = NoTopP(sess)
  /\ IF reraise(kind)
     THEN EndCall(t, Snapped(c), kind)
     ELSE Goto(t, "after_topp", Loc0, Snapped(Failed(c)), ui)
  /\ UNCHANGED <<cache, lock>>

\* The normal exits (lines 484-489)
top_p_return(t, end, a, c, u) ==
  /\ adj' = [adj EXCEPT ![t] = Ended(a, end)]
  /\ sess' = [sess EXCEPT !.top_p =
                IF end = "mismatch" \/ sess.wide \/ ~sess.history
                THEN None ELSE Some(loc[t].request)]
  /\ Goto(t, "after_topp", Loc0, c, u)
  /\ UNCHANGED <<cache, lock>>

\* lines 61-62 and 459-468: clamp, wait for the input, checkpoint
adjust_top_p(t) ==
  /\ pc[t] = "topp_visible"
  /\ \E top_p \in Drawn(TopPs, {95, 150}), ok \in BOOLEAN, d \in BOOLEAN :
       LET clamped_top_p == clamp_top_p(top_p)
           a == Waited([Asked(Began("top_p", clamped_top_p), top_p, "", <<>>) EXCEPT
                         !.again = (sess.top_p = Some(top_p))])
           c == Checked(call[t], d) IN
       IF ~ok THEN top_p_except(t, "Exception", a, call[t])
       ELSE IF check_disconnect(d)
       THEN top_p_except(t, "ClientDisconnectedError", a, c)
       ELSE field_step(t, "topp_read",
              [Loc0 EXCEPT !.clamped = clamped_top_p, !.request = top_p], a, c, ui)

\* lines 470-474 and 489: read the live value, parse, compare
adjust_top_p_read(t) ==
  /\ pc[t] = "topp_read"
  /\ \E ok \in BOOLEAN, live \in Drawn(UiTopPs, {NumStr(95), NumStr(50)}) :
       LET a == ReadUi(adj[t])
           u == [ui EXCEPT !.top_p = live]
           current_top_p_float == ParseNumber(live) IN
       IF ~ok THEN top_p_except(t, "Exception", a, call[t])
       ELSE IF current_top_p_float = None
       THEN top_p_except(t, "ValueError", a, call[t])
       ELSE IF top_p_differs(The(current_top_p_float), loc[t].clamped)
       THEN field_step(t, "topp_fill", loc[t], a, call[t], u)
       ELSE top_p_return(t, "read", a, call[t], u)

\* lines 475-476: fill, checkpoint
adjust_top_p_fill(t) ==
  /\ pc[t] = "topp_fill"
  /\ \E ok \in BOOLEAN, d \in BOOLEAN, shown \in AfterFill(ui.top_p, loc[t].clamped) :
       LET a == Filled(adj[t], str(loc[t].clamped))
           c == Checked(Mutated(call[t]), d)
           u == [ui EXCEPT !.top_p = shown] IN
       IF ~ok THEN top_p_except(t, "Exception", a, Mutated(call[t]))
       ELSE IF check_disconnect(d)
       THEN top_p_except(t, "ClientDisconnectedError", a, c)
       ELSE field_step(t, "topp_verify", loc[t], a, c, u)

\* lines 479-487: settle, read back, compare
adjust_top_p_verify(t) ==
  /\ pc[t] = "topp_verify"
  /\ \E ok \in BOOLEAN :
       LET a == ReadUi(adj[t])
           new_top_p_float == ParseNumber(ui.top_p) IN
       IF ~ok THEN top_p_except(t, "Exception", a, call[t])
       ELSE IF new_top_p_float = None THEN top_p_except(t, "ValueError", a, call[t])
       ELSE IF ~top_p_differs(The(new_top_p_float), loc[t].clamped)
       THEN top_p_return(t, "verified", a, call[t], ui)
       ELSE top_p_return(t, "mismatch", a, Snapped(Failed(call[t])), ui)

\* lines 63-69: the checkpoint after top-p, then the URL-context switch
after_top_p(t) ==
  /\ pc[t] = "after_topp"
  /\ \E d \in BOOLEAN, ENABLE_URL_CONTEXT \in BOOLEAN :
       LET c == Checked(call[t], d) IN
       IF check_disconnect(d)
       THEN EndCall(t, c, "ClientDisconnectedError")
       ELSE Goto(t, IF ENABLE_URL_CONTEXT THEN "url_class" ELSE "think", Loc0, c,
                 [ui EXCEPT !.top_p = Ui0.top_p])
  /\ adj' = [adj EXCEPT ![t] = Adj0]
  /\ UNCHANGED <<cache, lock, sess>>

\* ---- _open_url_content (lines 212-232): every exception is only logged
\* The class attribute of the tools panel: None, or its class names.
ClassStrings ==
  {None, Some(<<>>), Some(<<"tools", "expanded">>), Some(<<"tools">>),
   Some(<<"notexpanded">>)}
\* The aria-checked attribute of a toggle
AriaChecked == {"true", "false", "none"}

Range(f) == {f[i] : i \in DOMAIN f}

\* line 223: class_string and "expanded" not in class_string.split()
must_expand(class_string) ==
  class_string # None /\ The(class_string) # <<>>
    /\ "expanded" \notin Range(The(class_string))

\* A step of a helper that keeps no cache, lock or adjustment record
plain_step(t, next, l, c, u) ==
  /\ Goto(t, next, l, c, u)
  /\ UNCHANGED <<cache, lock, adj, sess>>

\* lines 214-223: read the panel's class
open_url_content(t) ==
  /\ pc[t] = "url_class"
  /\ \E ok \in BOOLEAN, class_string \in ClassStrings :
       IF ~ok THEN plain_step(t, "think", Loc0, Failed(call[t]), ui)
       ELSE plain_step(t, IF must_expand(class_string) THEN "url_expand" ELSE "url_checked",
              loc[t], call[t], ui)

\* lines 224-225: expand the panel
open_url_content_expand(t) ==
  /\ pc[t] = "url_expand"
  /\ \E ok \in BOOLEAN :
       IF ~ok THEN plain_step(t, "think", Loc0, Failed(Mutated(call[t])), ui)
       ELSE plain_step(t, "url_checked", loc[t], Mutated(call[t]), ui)

\* lines 226-228: read the toggle
open_url_content_checked(t) ==
  /\ pc[t] = "url_checked"
  /\ \E ok \in BOOLEAN, is_checked \in AriaChecked :
       IF ~ok THEN plain_step(t, "think", Loc0, Failed(call[t]), ui)
       ELSE plain_step(t, IF is_checked = "false" THEN "url_click" ELSE "think",
              loc[t], call[t], ui)

\* lines 229-232: click the toggle, checkpoint; the abandonment raised by the
\* checkpoint is caught by `except Exception` and only logged
open_url_content_click(t) ==
  /\ pc[t] = "url_click"
  /\ \E ok \in BOOLEAN, d \in BOOLEAN :
       IF ~ok THEN plain_step(t, "think", Loc0, Failed(Mutated(call[t])), ui)
       ELSE plain_step(t, "think", Loc0, Checked(Mutated(call[t]), d), ui)

\* ---- _handle_thinking_budget (lines 77-91) and its two helpers
\* The value of request_params['reasoning_effort']
EffortNone == [kind |-> "none", n |-> 0, s |-> <<>>]
EffortInt(n) == [kind |-> "int", n |-> n, s |-> <<>>]
EffortStr(s) == [kind |-> "str", n |-> 0, s |-> s]
EffortOther == [kind |-> "other", n |-> 0, s |-> <<>>]
Efforts ==
  { EffortNone, EffortInt(512), EffortOther,
    EffortStr(<<"l", "o", "w">>), EffortStr(<<"M", "e", "d", "i", "u", "m">>),
    EffortStr(<<"H", "I", "G", "H">>), EffortStr(<<"N", "o", "n", "e">>),
    EffortStr(<<"7">>), EffortStr(<<" ", "-", "1", "2">>), EffortStr(<<"7", ".", "5">>),
    EffortStr(<<"a", "b", "c">>) }

\* str.lower() on the letters that occur
lower_char(ch) ==
  CASE ch = "H" -> "h" [] ch = "I" -> "i" [] ch = "G" -> "g" [] ch = "L" -> "l"
    [] ch = "O" -> "o" [] ch = "W" -> "w" [] ch = "M" -> "m" [] ch = "E" -> "e"
    [] ch = "D" -> "d" [] ch = "U" -> "u" [] ch = "N" -> "n" [] OTHER -> ch
lower(s) == [i \in DOMAIN s |-> lower_char(s[i])]

\* int(text) for a text of decimal digits, surrounding blanks allowed
digit_value(ch) ==
  CASE ch = "0" -> 0 [] ch = "1" -> 1 [] ch = "2" -> 2 [] ch = "3" -> 3 [] ch = "4" -> 4
    [] ch = "5" -> 5 [] ch = "6" -> 6 [] ch = "7" -> 7 [] ch = "8" -> 8 [] ch = "9" -> 9
    [] OTHER -> -1
RECURSIVE digits_value(_, _)
digits_value(s, acc) ==
  IF s = <<>> THEN Some(acc)
  ELSE IF digit_value(Head(s)) < 0 THEN None
  ELSE digits_value(Tail(s), 10 * acc + digit_value(Head(s)))
unsigned_int_of_text(s) == IF s = <<>> THEN None ELSE digits_value(s, 0)
int_of_text(s) ==
  LET body == strip(s) IN
  IF body # <<>> /\ Head(body) = "-"
  THEN LET n == unsigned_int_of_text(Tail(body)) IN
       IF n = None THEN None ELSE Some(0 - The(n))
  ELSE IF body # <<>> /\ Head(body) = "+" THEN unsigned_int_of_text(Tail(body))
  ELSE unsigned_int_of_text(body)

\* A table of efforts that knows no tier
effort_map_empty(s) == None
\* lines 107-111
effort_map(s) ==
  CASE s = <<"l", "o", "w">> -> Some(1000)
    [] s = <<"m", "e", "d", "i", "u", "m">> -> Some(8000)
    [] s = <<"h", "i", "g", "h">> -> Some(24000)
    [] OTHER -> None

\* lines 93-121
parse_thinking_budget(reasoning_effort) ==
  CASE reasoning_effort.kind = "none" -> Some(DEFAULT_THINKING_BUDGET)
    [] reasoning_effort.kind = "int" -> Some(reasoning_effort.n)
    [] reasoning_effort.kind = "str" ->
         IF lower(reasoning_effort.s) = <<"n", "o", "n", "e">>
         THEN Some(DEFAULT_THINKING_BUDGET)
         ELSE IF effort_map(lower(reasoning_effort.s)) # None
         THEN effort_map(lower(reasoning_effort.s))
         ELSE int_of_text(reasoning_effort.s)
    [] OTHER -> None

\* A toggle that follows the default whatever the request says
thinking_follows_default(reasoning_effort, ENABLE_THINKING_BUDGET) ==
  ENABLE_THINKING_BUDGET
\* lines 81-91: the state the toggle should have
thinking_should_be_checked(reasoning_effort, ENABLE_THINKING_BUDGET) ==
  reasoning_effort.kind # "none" \/ ENABLE_THINKING_BUDGET

\* lines 84 and 91: the argument _adjust_thinking_budget is called with
\* (always parsed to a budget when the call is made unless it is unparsable)
thinking_budget_to_set(reasoning_effort, ENABLE_THINKING_BUDGET) ==
  IF thinking_should_be_checked(reasoning_effort, ENABLE_THINKING_BUDGET)
  THEN parse_thinking_budget(reasoning_effort)
  ELSE None

\* What follows the toggle: the budget input when a budget is to be set
\* (lines 84, 91, 129-131), else the search toggle
after_toggle(l) == IF l.budget # None THEN "bud_visible" ELSE "search"

\* A toggle that is taken to differ from what is wanted whatever it shows
toggle_always_differs(is_checked_str, should) == TRUE
\* lines 190 and 193, 246 and 249: `is_checked_str == "true"` against the
\* state wanted
toggle_differs(is_checked_str, should) == (is_checked_str = "true") # should

\* The except clause of a toggle or of the budget (lines 151-154, 206-210,
\* 266-270): log, re-raise only abandonment
toggle_except(t, next, kind, c) ==
  /\ IF reraise(kind)
     THEN EndCall(t, c, kind)
     ELSE IF next = "return" THEN EndCall(t, Failed(c), "ok")
     ELSE Goto(t, next, IF next = "search" THEN Loc0 ELSE loc[t], Failed(c), ui)
  /\ UNCHANGED <<cache, lock, adj, sess>>

\* The normal end of a toggle or of the budget
toggle_return(t, next, c) ==
  /\ IF next = "return" THEN EndCall(t, c, "ok")
     ELSE Goto(t, next, IF next = "search" THEN Loc0 ELSE loc[t], c, ui)
  /\ UNCHANGED <<cache, lock, adj, sess>>

\* lines 77-91 and 241-243: decide, wait for the toggle, checkpoint
control_thinking_budget_toggle(t) ==
  /\ pc[t] = "think"
  /\ \E reasoning_effort \in Drawn(Efforts, {EffortNone}),
        ENABLE_THINKING_BUDGET \in BOOLEAN, ok \in BOOLEAN, d \in BOOLEAN :
       LET l == [Loc0 EXCEPT
                   !.reasoning_effort = Some(reasoning_effort),
                   !.ENABLE_THINKING_BUDGET = ENABLE_THINKING_BUDGET,
                   !.should = thinking_should_be_checked(reasoning_effort,
                                                         ENABLE_THINKING_BUDGET),
                   !.budget = thinking_budget_to_set(reasoning_effort,
                                                     ENABLE_THINKING_BUDGET)]
           c0 == AtToggle(call[t], "thinking_budget", l.should)
           c == Checked(c0, d) IN
       /\ IF ~ok
          THEN Goto(t, after_toggle(l), IF l.budget # None THEN l ELSE Loc0,
                    Failed(c0), ui)
          ELSE IF check_disconnect(d)
          THEN EndCall(t, c, "ClientDisconnectedError")
          ELSE Goto(t, "tog_read", l, c, ui)
       /\ UNCHANGED <<cache, lock, adj, sess>>

\* lines 245-249 and 265: read aria-checked, compare
control_thinking_budget_toggle_read(t) ==
  /\ pc[t] = "tog_read"
  /\ \E ok \in BOOLEAN, is_checked_str \in AriaChecked :
       LET c == ToggleRead(call[t], is_checked_str) IN
       IF ~ok THEN toggle_except(t, after_toggle(loc[t]), "Exception",
                     ToggleRead(call[t], "raised"))
       ELSE IF toggle_differs(is_checked_str, loc[t].should)
       THEN plain_step(t, "tog_click", loc[t], c, ui)
       ELSE toggle_return(t, after_toggle(loc[t]), c)

\* lines 252-253: click, checkpoint
control_thinking_budget_toggle_click(t) ==
  /\ pc[t] = "tog_click"
  /\ \E ok \in BOOLEAN, d \in BOOLEAN :
       IF ~ok THEN toggle_except(t, after_toggle(loc[t]), "Exception",
                     ToggleClicked(Mutated(call[t]), "failed"))
       ELSE IF check_disconnect(d)
       THEN toggle_except(t, after_toggle(loc[t]), "ClientDisconnectedError",
              Checked(ToggleClicked(Mutated(call[t]), "abandoned"), d))
       ELSE plain_step(t, "tog_verify", loc[t],
              Checked(ToggleClicked(Mutated(call[t]), "passed"), d), ui)

\* lines 255-262: settle, read back; a wrong state is only logged
control_thinking_budget_toggle_verify(t) ==
  /\ pc[t] = "tog_verify"
  /\ \E ok \in BOOLEAN, new_state_str \in AriaChecked :
       LET c == ToggleReread(call[t], new_state_str) IN
       IF ~ok THEN toggle_except(t, after_toggle(loc[t]), "Exception",
                     ToggleReread(call[t], "raised"))
       ELSE IF (new_state_str = "true") = loc[t].should
       THEN toggle_return(t, after_toggle(loc[t]), c)
       ELSE toggle_return(t, after_toggle(loc[t]), Failed(c))

\* lines 135-137: wait for the budget input, checkpoint
adjust_thinking_budget(t) ==
  /\ pc[t] = "bud_visible"
  /\ \E ok \in BOOLEAN, d \in BOOLEAN :
       IF ~ok THEN toggle_except(t, "search", "Exception", call[t])
       ELSE IF check_disconnect(d)
       THEN toggle_except(t, "search", "ClientDisconnectedError", Checked(call[t], d))
       ELSE plain_step(t, "bud_fill", loc[t], Checked(call[t], d), ui)

\* lines 139-141: fill, checkpoint
adjust_thinking_budget_fill(t) ==
  /\ pc[t] = "bud_fill"
  /\ \E ok \in BOOLEAN, d \in BOOLEAN, shown \in AfterFill(ui.budget, The(loc[t].budget)) :
       IF ~ok THEN toggle_except(t, "search", "Exception", Mutated(call[t]))
       ELSE IF check_disconnect(d)
       THEN toggle_except(t, "search", "ClientDisconnectedError",
              Checked(Mutated(call[t]), d))
       ELSE plain_step(t, "bud_verify", loc[t], Checked(Mutated(call[t]), d),
              [ui EXCEPT !.budget = shown])

\* lines 143-149: settle, read back, compare; a wrong value is only logged
adjust_thinking_budget_verify(t) ==
  /\ pc[t] = "bud_verify"
  /\ \E ok \in BOOLEAN :
       LET new_value == ParseNumber(ui.budget)
           u == [ui EXCEPT !.budget = Ui0.budget] IN
       /\ IF ~ok THEN Goto(t, "search", Loc0, Failed(call[t]), u)
          ELSE IF new_value = None THEN Goto(t, "search", Loc0, Failed(call[t]), u)
          ELSE IF The(new_value) = The(loc[t].budget)
          THEN Goto(t, "search", Loc0, call[t], u)
          ELSE Goto(t, "search", Loc0, Failed(call[t]), u)
       /\ UNCHANGED <<cache, lock, adj, sess>>

\* ---- _adjust_google_search (lines 156-210)
\* The value of request_params['tools']: absent, None, not a list, or a list
\* of tools. A tool is a dict or not; gsr says its google_search_retrieval
\* is not None; function is the value under its 'function' key: absent, a
\* dict with a name ("" when it has none), or anything that is not a dict.
FunctionAbsent == [kind |-> "absent", name |-> ""]
FunctionDict(name) == [kind |-> "dict", name |-> name]
FunctionNotDict == [kind |-> "other", name |-> ""]
Tool(isdict, gsr, function) == [isdict |-> isdict, gsr |-> gsr, function |-> function]
ToolsAbsent == [kind |-> "absent", l |-> <<>>]
ToolsNone == [kind |-> "none", l |-> <<>>]
ToolsNotList == [kind |-> "other", l |-> <<>>]
ToolsList(l) == [kind |-> "list", l |-> l]
ToolsValues ==
  { ToolsAbsent, ToolsNone, ToolsNotList, ToolsList(<<>>),
    ToolsList(<<Tool(FALSE, TRUE, FunctionDict("googleSearch")),
                Tool(TRUE, FALSE, FunctionDict("lookup"))>>),
    ToolsList(<<Tool(TRUE, FALSE, FunctionAbsent), Tool(TRUE, TRUE, FunctionNotDict)>>),
    ToolsList(<<Tool(TRUE, FALSE, FunctionDict("googleSearch"))>>),
    ToolsList(<<Tool(TRUE, FALSE, FunctionNotDict)>>) }

\* lines 161-169: the loop over the tools. tool.get('function', {}) is the
\* value under the key when the key is there, and .get('name') on a value
\* that is not a dict raises AttributeError.
RECURSIVE has_google_search_tool(_)
has_google_search_tool(tools) ==
  IF tools = <<>> THEN "False"
  ELSE IF ~Head(tools).isdict THEN has_google_search_tool(Tail(tools))
  ELSE IF Head(tools).gsr THEN "True"
  ELSE IF Head(tools).function.kind = "other" THEN "AttributeError"
  ELSE IF Head(tools).function.name = "googleSearch" THEN "True"
  ELSE has_google_search_tool(Tail(tools))

\* A decision that follows the default whatever the request says
search_follows_default(tools, ENABLE_GOOGLE_SEARCH) ==
  IF ENABLE_GOOGLE_SEARCH THEN "True" ELSE "False"
\* lines 156-174
should_enable_google_search(tools, ENABLE_GOOGLE_SEARCH) ==
  IF tools.kind \notin {"absent", "none"}
  THEN IF tools.kind = "list" THEN has_google_search_tool(tools.l) ELSE "False"
  ELSE IF ENABLE_GOOGLE_SEARCH THEN "True" ELSE "False"

\* lines 180-187: decide (line 180 is outside the try: what it raises leaves
\* adjust_parameters), wait for the toggle, checkpoint
adjust_google_search(t) ==
  /\ pc[t] = "search"
  /\ \E tools \in Drawn(ToolsValues, {ToolsAbsent}), ENABLE_GOOGLE_SEARCH \in BOOLEAN,
        ok \in BOOLEAN, d \in BOOLEAN :
       LET should_enable_search == should_enable_google_search(tools, ENABLE_GOOGLE_SEARCH)
           l == [Loc0 EXCEPT !.should = (should_enable_search = "True"),
                             !.tools = Some(tools),
                             !.ENABLE_GOOGLE_SEARCH = ENABLE_GOOGLE_SEARCH]
           c0 == AtToggle(call[t], "google_search", l.should)
           c == Checked(c0, d) IN
       /\ IF should_enable_search = "AttributeError"
          THEN EndCall(t, call[t], "AttributeError")
          ELSE IF ~ok THEN EndCall(t, Failed(c0), "ok")
          ELSE IF check_disconnect(d) THEN EndCall(t, c, "ClientDisconnectedError")
          ELSE Goto(t, "search_read", l, c, ui)
       /\ UNCHANGED <<cache, lock, adj, sess>>

\* lines 189-193 and 204: read aria-checked, compare
adjust_google_search_read(t) ==
  /\ pc[t] = "search_read"
  /\ \E ok \in BOOLEAN, is_checked_str \in AriaChecked :
       LET c == ToggleRead(call[t], is_checked_str) IN
       IF ~ok THEN toggle_except(t, "return", "Exception", ToggleRead(call[t], "raised"))
       ELSE IF toggle_differs(is_checked_str, loc[t].should)
       THEN plain_step(t, "search_click", loc[t], c, ui)
       ELSE toggle_return(t, "return", c)

\* lines 196-197: click, checkpoint
adjust_google_search_click(t) ==
  /\ pc[t] = "search_click"
  /\ \E ok \in BOOLEAN, d \in BOOLEAN :
       IF ~ok THEN toggle_except(t, "return", "Exception",
                     ToggleClicked(Mutated(call[t]), "failed"))
       ELSE IF check_disconnect(d)
       THEN toggle_except(t, "return", "ClientDisconnectedError",
              Checked(ToggleClicked(Mutated(call[t]), "abandoned"), d))
       ELSE plain_step(t, "search_verify", loc[t],
              Checked(ToggleClicked(Mutated(call[t]), "passed"), d), ui)

\* lines 198-203: settle, read back; a wrong state is only logged
adjust_google_search_verify(t) ==
  /\ pc[t] = "search_verify"
  /\ \E ok \in BOOLEAN, new_state \in AriaChecked :
       LET c == ToggleReread(call[t], new_state) IN
       IF ~ok THEN toggle_except(t, "return", "Exception", ToggleReread(call[t], "raised"))
       ELSE IF (new_state = "true") = loc[t].should
       THEN toggle_return(t, "return", c)
       ELSE toggle_return(t, "return", Failed(c))

\* ---- clear_chat_history (lines 500-547)
\* How an awaited page operation may end
Outcomes == {"ok", "TimeoutError", "Exception"}

\* The except clause of clear_chat_history, of submit_prompt and of
\* get_response (lines 543-547, 692-696, 847-851): snapshot unless
\* abandonment, raise again
operation_except(t, kind, c) ==
  /\ EndCall(t, IF reraise(kind) THEN c ELSE Snapped(Failed(c)),
             IF kind = "ClientDisconnectedError" THEN kind ELSE "Exception")
  /\ sess' = AfterCall(sess, c, kind)
  /\ UNCHANGED <<cache, lock, adj>>

\* The normal return of clear_chat_history, submit_prompt and get_response
operation_return(t, c) ==
  /\ EndCall(t, c, "ok")
  /\ sess' = AfterCall(sess, c, "ok")
  /\ UNCHANGED <<cache, lock, adj>>

\* A checkpoint inside the try of an operation, then on to `next`
operation_checkpoint(t, next, l, c) ==
  \E d \in BOOLEAN :
    IF check_disconnect(d)
    THEN operation_except(t, "ClientDisconnectedError", Checked(c, d))
    ELSE plain_step(t, next, l, Checked(c, d), ui)

\* lines 500-512: the first checkpoint (outside the try), then the wait for
\* the submit/stop button
clear_chat_history(t) ==
  /\ pc[t] = "idle"
  /\ \E d \in BOOLEAN, enabled \in BOOLEAN :
       LET c == Checked([Call0 EXCEPT !.op = "clear_chat_history",
                                      !.result = "running",
                                      !.prior = sess.cleared], d) IN
       /\ IF check_disconnect(d)
          THEN EndCall(t, c, "ClientDisconnectedError")
               /\ sess' = AfterCall(sess, c, "ClientDisconnectedError")
          ELSE Goto(t, IF enabled THEN "clear_stop" ELSE "clear_enabled", Loc0, c, Ui0)
               /\ sess' = sess
       /\ adj' = [adj EXCEPT ![t] = Adj0]
       /\ UNCHANGED <<cache, lock>>

\* lines 514-519: click the submit/stop button; a failure is only logged
clear_chat_history_stop(t) ==
  /\ pc[t] = "clear_stop"
  /\ \E ok \in BOOLEAN :
       plain_step(t, "clear_enabled", loc[t],
         PreStep(Clicked(Mutated(call[t]), "submit"), ok), ui)

\* The address of the page as the segments of its path; a last empty
\* segment is a trailing slash
Urls ==
  { <<"prompts", "new_chat">>, <<"prompts", "new_chat", "">>,
    <<"prompts", "1a2b3c">>, <<"prompts", "1a2b3c", "">> }
RECURSIVE rstrip_slash(_)
rstrip_slash(url) ==
  IF url # <<>> /\ url[Len(url)] = ""
  THEN rstrip_slash(SubSeq(url, 1, Len(url) - 1)) ELSE url
\* line 530: '/prompts/new_chat' in self.page.url.rstrip('/')
is_new_chat_url(url) ==
  \E i \in 1..(Len(rstrip_slash(url)) - 1) :
    rstrip_slash(url)[i] = "prompts" /\ rstrip_slash(url)[i + 1] = "new_chat"

\* A reset that goes on whatever the clear button shows
attempts_clear_always(can_attempt_clear) == TRUE
\* line 538: `if can_attempt_clear:`
attempts_clear(can_attempt_clear) == can_attempt_clear

\* lines 525-541: wait for the clear button, look at the address when it
\* stays disabled, checkpoint, clear or skip
clear_chat_history_enabled(t) ==
  /\ pc[t] = "clear_enabled"
  /\ \E can_attempt_clear \in BOOLEAN, url \in Urls, d \in BOOLEAN :
       LET c0 == IF can_attempt_clear THEN call[t]
                 ELSE Skipped(call[t], is_new_chat_url(url))
           c == Checked(c0, d) IN
       IF check_disconnect(d)
       THEN operation_except(t, "ClientDisconnectedError", c)
       ELSE IF attempts_clear(can_attempt_clear)
       THEN plain_step(t, "clear_overlay", loc[t], c, ui)
       ELSE operation_return(t, c)

\* ---- _execute_chat_clear (lines 549-620)
\* lines 551-563: is the confirmation overlay already there; checkpoint
execute_chat_clear(t) ==
  /\ pc[t] = "clear_overlay"
  /\ \E outcome \in Outcomes, visible \in BOOLEAN :
       LET overlay_initially_visible == outcome = "ok" /\ visible IN
       operation_checkpoint(t,
         IF overlay_initially_visible THEN "clear_confirm" ELSE "clear_click",
         loc[t],
         Overlay(call[t], IF overlay_initially_visible THEN "initial" ELSE "absent"))

\* lines 569-571: click the clear button, checkpoint
execute_chat_clear_click(t) ==
  /\ pc[t] = "clear_click"
  /\ \E ok \in BOOLEAN :
       LET c == ClickCounted(Clicked(Mutated(call[t]), "clear"), "clear") IN
       IF ~ok THEN operation_except(t, "Exception", c)
       ELSE operation_checkpoint(t, "clear_wait_overlay", loc[t], c)

\* A wait for the overlay whose failure is let pass
overlay_always_appears(outcome) == TRUE
\* lines 573-583: the overlay became visible within the bound
overlay_appeared(outcome) == outcome = "ok"

\* lines 573-583: wait for the overlay, checkpoint
execute_chat_clear_wait_overlay(t) ==
  /\ pc[t] = "clear_wait_overlay"
  /\ \E outcome \in Outcomes :
       IF overlay_appeared(outcome)
       THEN operation_checkpoint(t, "clear_confirm", loc[t],
              Overlay(call[t], IF outcome = "ok" THEN "appeared" ELSE "missing"))
       ELSE operation_except(t, "Exception", Snapped(Overlay(call[t], "missing")))

\* lines 566 or 585, then 587: click the confirm button, checkpoint
execute_chat_clear_confirm(t) ==
  /\ pc[t] = "clear_confirm"
  /\ \E ok \in BOOLEAN :
       LET c == ClickCounted(Clicked(Mutated(call[t]), "confirm"), "confirm") IN
       IF ~ok THEN operation_except(t, "Exception", c)
       ELSE operation_checkpoint(t, "clear_hidden",
              [loc[t] EXCEPT !.attempt_disappear = 0], c)

\* A loop that starts every attempt as the first
next_attempt_stuck(attempt_disappear) == attempt_disappear
\* line 590: `for attempt_disappear in range(max_retries_disappear)`
next_attempt(attempt_disappear) == attempt_disappear + 1

\* A poll that is content with the confirm button being hidden
confirm_hidden_only(confirm_hidden, overlay_hidden) == confirm_hidden = "ok"
\* lines 594-597: both waits of one attempt returned
dialog_hidden(confirm_hidden, overlay_hidden) ==
  confirm_hidden = "ok" /\ overlay_hidden = "ok"

\* lines 590-618: one attempt to see the dialog disappear; the overlay is
\* awaited only when the confirm button was seen hidden
execute_chat_clear_hidden(t) ==
  /\ pc[t] = "clear_hidden"
  /\ \E confirm_hidden \in Outcomes, overlay_hidden \in Outcomes :
       LET outcome == IF confirm_hidden # "ok" THEN confirm_hidden
                      ELSE IF overlay_hidden # "ok" THEN overlay_hidden
                      ELSE "ok"
           c == Polled(call[t], confirm_hidden = "ok", overlay_hidden = "ok")
           last == ~(loc[t].attempt_disappear < max_retries_disappear - 1)
           again == [loc[t] EXCEPT !.attempt_disappear =
                                     next_attempt(loc[t].attempt_disappear)] IN
       IF dialog_hidden(confirm_hidden, overlay_hidden)
       THEN plain_step(t, "clear_verify", Loc0, c, ui)
       ELSE IF last
       THEN operation_except(t, "Exception",
              IF outcome = "TimeoutError" THEN Snapped(c) ELSE c)
       ELSE IF outcome = "TimeoutError"
       THEN operation_checkpoint(t, "clear_hidden", again, Slept(Failed(c)))
       ELSE plain_step(t, "clear_hidden", again, Slept(Failed(c)), ui)

\* ---- _verify_chat_cleared (lines 622-631): checkpoint, then a wait whose
\* failure is only logged
verify_chat_cleared(t) ==
  /\ pc[t] = "clear_verify"
  /\ \E d \in BOOLEAN, hidden \in BOOLEAN :
       IF check_disconnect(d)
       THEN operation_except(t, "ClientDisconnectedError", Checked(call[t], d))
       ELSE operation_return(t, IF hidden THEN Checked(call[t], d)
                                ELSE Failed(Checked(call[t], d)))

\* ---- submit_prompt (lines 633-696)
\* lines 641-642: wait for the prompt input, checkpoint
submit_prompt(t) ==
  /\ pc[t] = "idle"
  /\ \E image_list \in BOOLEAN, ok \in BOOLEAN, d \in BOOLEAN :
       LET c0 == [Call0 EXCEPT !.op = "submit_prompt", !.result = "running"]
           c == Checked(c0, d) IN
       /\ IF ~ok THEN EndCall(t, Snapped(Failed(c0)), "Exception")
          ELSE IF check_disconnect(d) THEN EndCall(t, c, "ClientDisconnectedError")
          ELSE Goto(t, "submit_fill", [Loc0 EXCEPT !.image_list = image_list], c, Ui0)
       /\ adj' = [adj EXCEPT ![t] = Adj0]
       /\ UNCHANGED <<cache, lock, sess>>

\* lines 645-654: put the prompt into the input
submit_prompt_fill(t) ==
  /\ pc[t] = "submit_fill"
  /\ \E ok \in BOOLEAN :
       IF ~ok THEN operation_except(t, "Exception", Mutated(call[t]))
       ELSE plain_step(t, "submit_fill_wrapper", loc[t],
              PromptFilled(Mutated(call[t])), ui)

\* lines 655-660: copy the prompt to the autosize wrapper, checkpoint
submit_prompt_fill_wrapper(t) ==
  /\ pc[t] = "submit_fill_wrapper"
  /\ \E ok \in BOOLEAN :
       IF ~ok THEN operation_except(t, "Exception", Mutated(call[t]))
       ELSE operation_checkpoint(t,
              IF loc[t].image_list THEN "upload_diagnose" ELSE "submit_enabled",
              loc[t], Mutated(call[t]))

\* ---- _upload_files_with_diagnostics (lines 853-879): whatever is raised
\* is only logged and the submission goes on without the files
\* An except clause that raises what it caught to submit_prompt
upload_except_raises(t, c) == operation_except(t, "Exception", c)
\* lines 877-879: what an upload step raises is logged, and submit_prompt
\* goes on (line 662) without the files
upload_except(t, c) == plain_step(t, "submit_enabled", loc[t], Failed(c), ui)

\* line 859: read what the page offers
upload_files_with_diagnostics(t) ==
  /\ pc[t] = "upload_diagnose"
  /\ \E ok \in BOOLEAN :
       IF ~ok THEN upload_except(t, call[t])
       ELSE plain_step(t, "upload_function_button", loc[t], call[t], ui)

\* An upload that goes on to its methods without the function button
gives_up_never(function_btn_found) == FALSE
\* lines 863-865: `if not function_btn_found: return`
gives_up(function_btn_found) == ~function_btn_found

\* lines 862-865: find and click the function button
upload_find_and_click_function_button(t) ==
  /\ pc[t] = "upload_function_button"
  /\ \E ok \in BOOLEAN, function_btn_found \in BOOLEAN :
       IF ~ok THEN upload_except(t, Mutated(call[t]))
       ELSE IF gives_up(function_btn_found)
       THEN plain_step(t, "submit_enabled", loc[t],
              FunctionButton(Failed(call[t]), function_btn_found), ui)
       ELSE plain_step(t, "upload_methods", loc[t],
              FunctionButton(Mutated(call[t]), function_btn_found), ui)

\* ---- _try_multiple_upload_methods (lines 1010-1030)
\* How an upload method may end: it returns True or False, or something
\* escapes its own handlers and is caught at line 877
MethodResults == {"True", "False", "raise"}

\* An orchestrator that goes on to the next method whatever the last returned
tries_next_always(result) == TRUE
\* lines 1016, 1021, 1026: `if await self._try_...: return True`
tries_next(result) == result = "False"

\* lines 1205-1215: a file input took the files and the page then showed
\* one of the indicators of an upload
direct_file_input_success(assigned, indicator) == assigned /\ indicator

\* A method of the orchestrator ended with `result`: the next method, the
\* copyright notice (lines 868-873), or the submission without the files
\* (lines 875-879)
upload_method_return(t, result, next, c) ==
  IF result = "raise" THEN upload_except(t, c)
  ELSE IF ~tries_next(result) THEN plain_step(t, "upload_copyright", loc[t], c, ui)
  ELSE plain_step(t, next, loc[t], IF next = "submit_enabled" THEN Failed(c) ELSE c, ui)

\* lines 1176-1220: what a file input found by the selectors may do: it is
\* not enabled, set_input_files raises, the files are taken and no indicator
\* of an upload shows, or the files are taken and an indicator shows
FileInputOutcomes == {"disabled", "raised", "unverified", "verified"}
\* lines 1162-1174: the file inputs the three selectors find, in order (an
\* input that matches two selectors is found twice)
FileInputs ==
  {<<>>} \cup {<<a>> : a \in FileInputOutcomes}
    \cup {<<a, b>> : a \in FileInputOutcomes, b \in FileInputOutcomes}

\* lines 1182-1220: the loop over the file inputs: the files are assigned
\* to each enabled input in turn until an indicator shows after one
RECURSIVE try_direct_file_input(_)
try_direct_file_input(all_file_inputs) ==
  IF all_file_inputs = <<>> THEN [assignments |-> 0, success |-> FALSE]
  ELSE LET file_input == Head(all_file_inputs)
           assigned == file_input \in {"unverified", "verified"}
           rest == try_direct_file_input(Tail(all_file_inputs)) IN
       IF direct_file_input_success(assigned, file_input = "verified")
       THEN [assignments |-> 1, success |-> TRUE]
       ELSE [rest EXCEPT !.assignments = rest.assignments + (IF assigned THEN 1 ELSE 0)]

\* lines 1014-1017 and 1156-1228: the files are assigned to the file inputs
upload_try_multiple_upload_methods(t) ==
  /\ pc[t] = "upload_methods"
  /\ \E raised \in BOOLEAN, all_file_inputs \in FileInputs :
       LET direct == try_direct_file_input(all_file_inputs)
           result == IF raised THEN "raise"
                     ELSE IF direct.success THEN "True"
                     ELSE "False"
           c == Assigned(Tried(Mutated(call[t]), "direct", result),
                         ~raised /\ direct.assignments > 0, direct.success) IN
       upload_method_return(t, result, "upload_chooser",
         HandedOver(c, IF raised THEN 0 ELSE direct.assignments))

\* lines 1019-1022 and 1032-1154: the files are handed to a file chooser
try_standard_file_chooser(t) ==
  /\ pc[t] = "upload_chooser"
  /\ \E result \in MethodResults :
       upload_method_return(t, result, "upload_drag_drop",
         HandedOver(Tried(Mutated(call[t]), "chooser", result),
                    IF result = "True" THEN 1 ELSE 0))

\* lines 1024-1030 and 1299-1337: the files are dropped on a drop zone
try_drag_drop_upload(t) ==
  /\ pc[t] = "upload_drag_drop"
  /\ \E result \in MethodResults :
       upload_method_return(t, result, "submit_enabled",
         Tried(Mutated(call[t]), "drag_drop", result))

\* line 873: acknowledge the copyright notice when one is shown
upload_handle_copyright_acknowledgement(t) ==
  /\ pc[t] = "upload_copyright"
  /\ \E ok \in BOOLEAN, shown \in BOOLEAN :
       IF ~ok THEN upload_except(t, call[t])
       ELSE plain_step(t, "submit_enabled", loc[t],
              IF shown THEN Mutated(call[t]) ELSE call[t], ui)

\* A wait for the submit button whose failure is let pass
button_enabled_ignored(ok) == TRUE
\* lines 665-671: the submit button reported enabled within the bound
button_enabled(ok) == ok

\* lines 662-673: checkpoint, wait for the submit button, checkpoint. What
\* the inner try raises is snapshotted there, abandonment included.
submit_prompt_enabled(t) ==
  /\ pc[t] = "submit_enabled"
  /\ \E d \in BOOLEAN, ok \in BOOLEAN :
       LET c == Checked(call[t], d) IN
       IF check_disconnect(d)
       THEN operation_except(t, "ClientDisconnectedError", Snapped(c))
       ELSE IF ~button_enabled(ok) THEN operation_except(t, "Exception", Snapped(Enabled(c, ok)))
       ELSE operation_checkpoint(t, "shortcut", loc[t], Enabled(c, ok))

\* ---- _try_shortcut_submit (lines 698-805)
\* os.environ.get('HOST_OS_FOR_SHORTCUT'): None or a name
HostOs == {"Darwin", "Windows", "Linux", "none", "Solaris"}
\* navigator.userAgentData.platform, lower-cased, as words
Platforms == {<<"macos">>, <<"windows">>, <<>>}
\* navigator.userAgent, lower-cased, reduced to what the code looks for
UserAgents == {"macintosh", "mac os x", "x11"}

\* line 721: "mac" in user_agent_data_platform.lower()
platform_is_mac(platform) ==
  \E i \in 1..Len(platform) : platform[i] \in {"macos", "mac"}

\* lines 715-719
platform_from_user_agent(user_agent_string_lower) ==
  IF user_agent_string_lower \in {"macintosh", "mac os x"}
  THEN <<"macos">> ELSE <<"other">>

\* line 723
modifier_for(is_mac_determined) == IF is_mac_determined THEN "Meta" ELSE "Control"

\* A submission that never falls back on the submit button
falls_back_never(submitted_successfully) == FALSE
\* line 680: `if not submitted_successfully:`
falls_back(submitted_successfully) == ~submitted_successfully

\* _try_shortcut_submit returns: True goes to the last checkpoint of
\* submit_prompt (line 690), False to the click on the submit button
shortcut_return(t, submitted_successfully, c) ==
  plain_step(t, IF falls_back(submitted_successfully) THEN "submit_click"
                ELSE "submit_after",
             Loc0, Returned(c, submitted_successfully), ui)

\* lines 702-708: the host's name decides, or the browser is asked
try_shortcut_submit(t) ==
  /\ pc[t] = "shortcut"
  /\ \E host_os_from_launcher \in HostOs :
       LET c == Hinted(call[t], host_os_from_launcher)
           shortcut_modifier == modifier_for(host_os_from_launcher = "Darwin") IN
       IF host_os_from_launcher \in {"Darwin", "Windows", "Linux"}
       THEN plain_step(t, "shortcut_focus",
              [loc[t] EXCEPT !.shortcut_modifier = shortcut_modifier],
              Chose(c, shortcut_modifier), ui)
       ELSE plain_step(t, "shortcut_platform", loc[t], c, ui)

\* lines 711-712 and 721: ask for userAgentData.platform
try_shortcut_submit_platform(t) ==
  /\ pc[t] = "shortcut_platform"
  /\ \E ok \in BOOLEAN, user_agent_data_platform \in Platforms :
       LET c == AskedPlatform(call[t], ok, user_agent_data_platform)
           shortcut_modifier == modifier_for(platform_is_mac(user_agent_data_platform)) IN
       IF ~ok THEN plain_step(t, "shortcut_user_agent", loc[t], c, ui)
       ELSE plain_step(t, "shortcut_focus",
              [loc[t] EXCEPT !.shortcut_modifier = shortcut_modifier],
              Chose(c, shortcut_modifier), ui)

\* lines 713-721: ask for the user agent instead
try_shortcut_submit_user_agent(t) ==
  /\ pc[t] = "shortcut_user_agent"
  /\ \E ok \in BOOLEAN, user_agent_string_lower \in UserAgents :
       LET c == AskedAgent(call[t], ok, user_agent_string_lower)
           shortcut_modifier ==
             modifier_for(platform_is_mac(
               platform_from_user_agent(user_agent_string_lower))) IN
       IF ~ok THEN shortcut_return(t, FALSE, Failed(c))
       ELSE plain_step(t, "shortcut_focus",
              [loc[t] EXCEPT !.shortcut_modifier = shortcut_modifier],
              Chose(c, shortcut_modifier), ui)

\* lines 728-729 and 803-805: focus the input, checkpoint; the abandonment
\* the checkpoint raises is caught by `except Exception` and False returned
try_shortcut_submit_focus(t) ==
  /\ pc[t] = "shortcut_focus"
  /\ \E ok \in BOOLEAN, d \in BOOLEAN :
       IF ~ok THEN shortcut_return(t, FALSE, Failed(call[t]))
       ELSE IF check_disconnect(d) THEN shortcut_return(t, FALSE, Checked(call[t], d))
       ELSE plain_step(t, "shortcut_content", loc[t], Checked(call[t], d), ui)

\* lines 733-738: remember what the input holds
try_shortcut_submit_content(t) ==
  /\ pc[t] = "shortcut_content"
  /\ \E ok \in BOOLEAN, nonempty \in BOOLEAN :
       plain_step(t, "shortcut_press",
         [loc[t] EXCEPT !.original_content = ok /\ nonempty],
         Original(call[t], ok /\ nonempty), ui)

\* lines 740-750: press the chord (key by key when the chord fails),
\* checkpoint; the abandonment is caught as above
try_shortcut_submit_press(t) ==
  /\ pc[t] = "shortcut_press"
  /\ \E chord \in BOOLEAN, stepwise \in BOOLEAN, d \in BOOLEAN, triggered \in BOOLEAN :
       LET c == Pressed(Clicked(Mutated(call[t]), "shortcut"),
                        (chord \/ stepwise) /\ triggered) IN
       IF ~chord /\ ~stepwise THEN shortcut_return(t, FALSE, Failed(c))
       ELSE IF check_disconnect(d) THEN shortcut_return(t, FALSE, Checked(c, d))
       ELSE plain_step(t, "shortcut_verify", loc[t], Checked(c, d), ui)

\* A verification in which no read of the prompt input raises
verification_never_raised(ok) == FALSE
\* lines 761 and 791-794: the read of the prompt input raised, which the
\* outer except clause of the verification takes for a submission
verification_raised(ok) == ~ok

\* A verification that never takes the prompt input for cleared
input_cleared_never(original_content, blank) == FALSE
\* line 762: `original_content and not current_content.strip()`
input_cleared(original_content, blank) == original_content /\ blank

\* lines 756-764 and 791-794: is the input empty now; an error here counts
\* as a submission
try_shortcut_submit_verify(t) ==
  /\ pc[t] = "shortcut_verify"
  /\ \E ok \in BOOLEAN, blank \in BOOLEAN :
       LET c == Seen(call[t], "empty", ok, blank) IN
       IF verification_raised(ok) THEN shortcut_return(t, TRUE, Failed(c))
       ELSE IF input_cleared(loc[t].original_content, blank)
       THEN shortcut_return(t, TRUE, c)
       ELSE plain_step(t, "shortcut_verify_button", loc[t], c, ui)

\* lines 764-773: is the submit button disabled now
try_shortcut_submit_verify_button(t) ==
  /\ pc[t] = "shortcut_verify_button"
  /\ \E ok \in BOOLEAN, is_disabled \in BOOLEAN :
       LET c == Seen(call[t], "disabled", ok, is_disabled) IN
       IF ok /\ is_disabled THEN shortcut_return(t, TRUE, c)
       ELSE plain_step(t, "shortcut_verify_container", loc[t], c, ui)

\* lines 775-785 and 791-796: is there a visible response container
try_shortcut_submit_verify_container(t) ==
  /\ pc[t] = "shortcut_verify_container"
  /\ \E ok \in BOOLEAN, container_count \in 0..1, visible \in BOOLEAN :
       shortcut_return(t, ok /\ container_count > 0 /\ visible,
         Seen(call[t], "container", ok, container_count > 0 /\ visible))

\* lines 681-688: the shortcut did not submit, click the submit button
submit_prompt_click(t) ==
  /\ pc[t] = "submit_click"
  /\ \E ok \in BOOLEAN :
       LET c == ClickEnded(Clicked(Mutated(call[t]), "submit"), ok) IN
       IF ~ok THEN operation_except(t, "Exception", Snapped(c))
       ELSE plain_step(t, "submit_after", loc[t], c, ui)

\* line 690: the last checkpoint
submit_prompt_after(t) ==
  /\ pc[t] = "submit_after"
  /\ \E d \in BOOLEAN :
       IF check_disconnect(d)
       THEN operation_except(t, "ClientDisconnectedError", Checked(call[t], d))
       ELSE operation_return(t, Checked(call[t], d))

\* ---- get_response (lines 807-851)
\* What may be raised inside get_response
Raised == {"Exception", "ClientDisconnectedError"}
\* What the extraction may return: None, or a text
Contents ==
  {None, Some(<<>>), Some(<<" ">>), Some(<<"a">>), Some(<<" ", "a", " ">>)}

\* lines 817-818: wait for the response element, checkpoint
get_response(t) ==
  /\ pc[t] = "idle"
  /\ \E ok \in BOOLEAN, d \in BOOLEAN :
       LET c0 == [Call0 EXCEPT !.op = "get_response", !.result = "running"]
           c == Checked(c0, d) IN
       /\ IF ~ok THEN EndCall(t, Snapped(Failed(c0)), "Exception")
          ELSE IF check_disconnect(d) THEN EndCall(t, c, "ClientDisconnectedError")
          ELSE Goto(t, "response_completion", Loc0, c, Ui0)
       /\ adj' = [adj EXCEPT ![t] = Adj0]
       /\ UNCHANGED <<cache, lock, sess>>

\* lines 826-833: the completion detection returns True or False, or raises;
\* False is only logged
get_response_completion(t) ==
  /\ pc[t] = "response_completion"
  /\ \/ \E kind \in Raised : operation_except(t, kind, call[t])
     \/ \E completion_detected \in BOOLEAN :
          plain_step(t, "response_content", loc[t],
            Completed(call[t], completion_detected), ui)

\* An extraction whose result is never taken for empty
is_empty_content_never(final_content) == FALSE
\* line 838: `not final_content or not final_content.strip()`
is_empty_content(final_content) ==
  final_content = None \/ The(final_content) = <<>> \/ strip(The(final_content)) = <<>>

\* lines 836-845: extract the final content; empty content is snapshotted
\* and returned as ""
get_response_content(t) ==
  /\ pc[t] = "response_content"
  /\ \/ \E kind \in Raised :
          operation_except(t, kind, Extracted(call[t], FALSE, None))
     \/ \E final_content \in Contents :
          LET c == Extracted(call[t], TRUE, final_content) IN
          IF is_empty_content(final_content)
          THEN operation_return(t, Value(Snapped(c), Some(<<>>)))
          ELSE operation_return(t, Value(c, final_content))

\* ---- FileCleanupService (src/api_utils/file_cleanup.py)
\* The loop tasks asyncio.create_task has made and that may not be done yet
Loops == 1..MaxLoops
\* A loop task: where its coroutine is suspended ("none": no such task,
\* "new": created and not yet run), whether cancel() was called on it, the
\* hours its present sleep has lasted, the hours since it was created or
\* last ran a sweep (counted up to the interval), and where it ended: it
\* returned, or it was cancelled at an await
Loop0 ==
  [pc |-> "none", must_cancel |-> FALSE, elapsed |-> 0, since |-> 0, ended |-> "no"]
\* lines 17-20: the service after __init__ (cleanup_task 0 is None);
\* awaiting: the tasks that calls of stop_cleanup_service wait for; quiet: a
\* call of stop returned and start was not called since; last, found, turn:
\* the last call, whether it found the service running, and a bit that
\* changes with every call; sweeper, sweeps: the loop that ran the last
\* sweep and a bit that changes with every sweep
Svc0 ==
  [is_running |-> FALSE, cleanup_task |-> 0, loops |-> [i \in Loops |-> Loop0],
   awaiting |-> {}, quiet |-> FALSE, last |-> "none", found |-> FALSE, turn |-> 0,
   sweeper |-> 0, sweeps |-> 0]

\* A step of the cleanup service leaves the page controller alone
service_step(s) ==
  /\ svc' = s
  /\ UNCHANGED <<pc, loc, cache, lock, ui, adj, call, sess>>

\* a call of start or stop is recorded
Called(s, name) ==
  [s EXCEPT !.last = name, !.found = s.is_running, !.turn = 1 - s.turn]

\* A start that never takes the service for running
already_running_never(is_running) == FALSE
\* line 64: `if self.is_running: return`
already_running(is_running) == is_running

\* The place of a task that is done and that no stop waits for is free for
\* a new task (the first free place is taken)
free_slot(i) == svc.loops[i].pc \in {"none", "done"} /\ i \notin svc.awaiting

\* lines 62-75: start_cleanup_service has no await: it returns at once, or
\* sets the flag and creates the loop task, which runs later
start_cleanup_service ==
  IF already_running(svc.is_running)
  THEN service_step(Called(svc, "start"))
  ELSE \E i \in Loops :
         /\ free_slot(i)
         /\ \A j \in Loops : free_slot(j) => i <= j
         /\ service_step(
              [Called(svc, "start") EXCEPT
                 !.is_running = TRUE,
                 !.cleanup_task = i,
                 !.loops[i] = [Loop0 EXCEPT !.pc = "new"],
                 !.quiet = FALSE])

\* A stop that cancels no task
needs_cancel_never(cleanup_task, done) == FALSE
\* line 83: `if self.cleanup_task and not self.cleanup_task.done()`
needs_cancel(cleanup_task, done) == cleanup_task # 0 /\ ~done

\* lines 77-86: stop_cleanup_service up to its await: it returns at once
\* when the service is not running; else it clears the flag, and cancels the
\* loop task and waits for it unless the task is done
stop_cleanup_service ==
  LET i == svc.cleanup_task
      s == Called(svc, "stop") IN
  IF ~svc.is_running
  THEN service_step([s EXCEPT !.quiet = TRUE])
  ELSE IF needs_cancel(i, i # 0 /\ svc.loops[i].pc = "done")
  THEN service_step([s EXCEPT !.is_running = FALSE,
                              !.loops[i].must_cancel = TRUE,
                              !.awaiting = svc.awaiting \cup {i}])
  ELSE service_step([s EXCEPT !.is_running = FALSE, !.quiet = TRUE])

\* lines 86-90: the task awaited is done (its CancelledError is passed
\* over), stop_cleanup_service returns
stop_cleanup_service_return ==
  \E i \in svc.awaiting :
    /\ svc.loops[i].pc = "done"
    /\ service_step([svc EXCEPT !.awaiting = svc.awaiting \ {i},
                                !.quiet = svc.quiet \/ ~svc.is_running])

\* A loop that sweeps as soon as it runs
wait_none(interval_hours) == 0
\* line 97: wait_seconds = FILE_CLEANUP_INTERVAL_HOURS * 3600, in hours
wait_hours(interval_hours) == interval_hours

\* The loop task i ends: it returned, or it was cancelled
loop_done(i) ==
  service_step([svc EXCEPT !.loops[i] =
    [Loop0 EXCEPT !.pc = "done",
                  !.ended = IF svc.loops[i].must_cancel THEN svc.loops[i].pc
                            ELSE "returned"]])
\* line 94: `while self.is_running`, and on to the sleep of line 100
loop_again(s, i) ==
  IF s.is_running
  THEN service_step([s EXCEPT !.loops[i].pc = "sleep", !.loops[i].elapsed = 0])
  ELSE service_step([s EXCEPT !.loops[i] =
                               [Loop0 EXCEPT !.pc = "done", !.ended = "returned"]])

\* lines 92-100: the first step of the loop task; a task cancelled before its
\* first step never runs
cleanup_loop(i) ==
  /\ svc.loops[i].pc = "new"
  /\ IF svc.loops[i].must_cancel THEN loop_done(i) ELSE loop_again(svc, i)

\* lines 100-115: the sleep ends: cancelled (lines 109-111), or the interval
\* is over: the flag is looked at again (lines 102-103) and the sweep runs
\* (line 107); what the sweep raises leads to the sleep of line 115
cleanup_loop_sleep(i) ==
  /\ svc.loops[i].pc = "sleep"
  /\ IF svc.loops[i].must_cancel THEN loop_done(i)
     ELSE /\ svc.loops[i].elapsed >= wait_hours(FILE_CLEANUP_INTERVAL_HOURS)
          /\ IF ~svc.is_running THEN loop_done(i)
             ELSE \E ok \in BOOLEAN :
                    LET s == [svc EXCEPT !.sweeper = i, !.sweeps = 1 - svc.sweeps,
                                         !.loops[i].since = 0] IN
                    IF ok THEN loop_again(s, i)
                    ELSE service_step([s EXCEPT !.loops[i].pc = "error_sleep",
                                                !.loops[i].elapsed = 0])

\* lines 112-115: the sleep after an error ends: cancelled (the
\* CancelledError leaves the task, no handler being around line 115), or
\* one hour is over and the loop goes round
cleanup_loop_error_sleep(i) ==
  /\ svc.loops[i].pc = "error_sleep"
  /\ IF svc.loops[i].must_cancel THEN loop_done(i)
     ELSE /\ svc.loops[i].elapsed >= ERROR_RETRY_HOURS
          /\ loop_again(svc, i)

\* How long the sleep of a loop task lasts, and the task after one more hour
sleep_hours(l) == IF l.pc = "error_sleep" THEN ERROR_RETRY_HOURS
                 ELSE wait_hours(FILE_CLEANUP_INTERVAL_HOURS)
hour_later(l) ==
  IF l.pc \in {"none", "done"} THEN l
  ELSE [l EXCEPT !.elapsed = IF l.pc = "new" THEN 0
                             ELSE Min2(l.elapsed + 1, sleep_hours(l)),
                 !.since = Min2(l.since + 1, FILE_CLEANUP_INTERVAL_HOURS)]
\* One hour passes
hour_passes ==
  /\ \E i \in Loops : hour_later(svc.loops[i]) # svc.loops[i]
  /\ service_step([svc EXCEPT !.loops = [i \in Loops |-> hour_later(svc.loops[i])]])

\* ------------------------------------------------------- specifications
Start(wide, history) ==
  /\ pc = [t \in Tasks |-> "idle"]
  /\ loc = [t \in Tasks |-> Loc0]
  /\ cache = Cache0
  /\ lock = 0
  /\ ui = Ui0
  /\ adj = [t \in Tasks |-> Adj0]
  /\ call = [t \in Tasks |-> Call0]
  /\ sess = [Sess0 EXCEPT !.wide = wide, !.history = history]
  /\ svc = Svc0

\* The steps of adjust_parameters
StepAdjust(t) ==
  \/ adjust_parameters(t)
  \/ adjust_temperature(t)
  \/ adjust_temperature_visible(t)
  \/ adjust_temperature_read(t)
  \/ adjust_temperature_fill(t)
  \/ adjust_temperature_verify(t)
  \/ after_temperature(t)
  \/ adjust_max_tokens(t)
  \/ adjust_max_tokens_visible(t)
  \/ adjust_max_tokens_read(t)
  \/ adjust_max_tokens_fill(t)
  \/ adjust_max_tokens_verify(t)
  \/ after_max_tokens(t)
  \/ adjust_stop_sequences(t)
  \/ adjust_stop_sequences_count(t)
  \/ adjust_stop_sequences_remove(t)
  \/ adjust_stop_sequences_visible(t)
  \/ adjust_stop_sequences_add(t)
  \/ after_stop_sequences(t)
  \/ adjust_top_p(t)
  \/ adjust_top_p_read(t)
  \/ adjust_top_p_fill(t)
  \/ adjust_top_p_verify(t)
  \/ after_top_p(t)
  \/ open_url_content(t)
  \/ open_url_content_expand(t)
  \/ open_url_content_checked(t)
  \/ open_url_content_click(t)
  \/ control_thinking_budget_toggle(t)
  \/ control_thinking_budget_toggle_read(t)
  \/ control_thinking_budget_toggle_click(t)
  \/ control_thinking_budget_toggle_verify(t)
  \/ adjust_thinking_budget(t)
  \/ adjust_thinking_budget_fill(t)
  \/ adjust_thinking_budget_verify(t)
  \/ adjust_google_search(t)
  \/ adjust_google_search_read(t)
  \/ adjust_google_search_click(t)
  \/ adjust_google_search_verify(t)

\* The steps of clear_chat_history
StepClear(t) ==
  \/ clear_chat_history(t)
  \/ clear_chat_history_stop(t)
  \/ clear_chat_history_enabled(t)
  \/ execute_chat_clear(t)
  \/ execute_chat_clear_click(t)
  \/ execute_chat_clear_wait_overlay(t)
  \/ execute_chat_clear_confirm(t)
  \/ execute_chat_clear_hidden(t)
  \/ verify_chat_cleared(t)

\* The steps of submit_prompt
StepSubmit(t) ==
  \/ submit_prompt(t)
  \/ submit_prompt_fill(t)
  \/ submit_prompt_fill_wrapper(t)
  \/ upload_files_with_diagnostics(t)
  \/ upload_find_and_click_function_button(t)
  \/ upload_try_multiple_upload_methods(t)
  \/ try_standard_file_chooser(t)
  \/ try_drag_drop_upload(t)
  \/ upload_handle_copyright_acknowledgement(t)
  \/ submit_prompt_enabled(t)
  \/ try_shortcut_submit(t)
  \/ try_shortcut_submit_platform(t)
  \/ try_shortcut_submit_user_agent(t)
  \/ try_shortcut_submit_focus(t)
  \/ try_shortcut_submit_content(t)
  \/ try_shortcut_submit_press(t)
  \/ try_shortcut_submit_verify(t)
  \/ try_shortcut_submit_verify_button(t)
  \/ try_shortcut_submit_verify_container(t)
  \/ submit_prompt_click(t)
  \/ submit_prompt_after(t)

\* The steps of get_response
StepResponse(t) ==
  \/ get_response(t)
  \/ get_response_completion(t)
  \/ get_response_content(t)

\* One task calling the operations again and again, all requests
Init == Start(TRUE, TRUE)
Next == StepClear(1) \/ StepAdjust(1) \/ StepSubmit(1) \/ StepResponse(1)
Spec == Init /\ [][Next]_vars

\* One task, narrow requests, the session's history remembered
InitSession == Start(FALSE, TRUE)
NextSession == StepAdjust(1)
SpecSession == InitSession /\ [][NextSession]_vars

\* One task resetting the session again and again, the last call remembered
InitReset == Start(FALSE, TRUE)
NextReset == StepClear(1)
SpecReset == InitReset /\ [][NextReset]_vars

\* The same, and no await of adjust_parameters lasts forever: each wait,
\* click and fill carries a timeout, each pause is a bounded sleep
FairSession == InitSession /\ [][NextSession]_vars /\ WF_vars(NextSession)

\* The same, and no await of clear_chat_history lasts forever: each wait and
\* each click carries a timeout, each pause is a bounded sleep
FairReset == InitReset /\ [][NextReset]_vars /\ WF_vars(NextReset)

\* One task submitting prompts, reading the responses and resetting the
\* session again and again, each step recorded
InitSubmit == Start(FALSE, TRUE)
NextSubmit == StepSubmit(1) \/ StepResponse(1) \/ StepClear(1)
SpecSubmit == InitSubmit /\ [][NextSubmit]_vars

\* The file cleanup service: start and stop called at any time, the loop
\* tasks taking their steps, the hours passing
StepCleanup ==
  \/ start_cleanup_service
  \/ stop_cleanup_service
  \/ stop_cleanup_service_return
  \/ \E i \in Loops : cleanup_loop(i)
  \/ \E i \in Loops : cleanup_loop_sleep(i)
  \/ \E i \in Loops : cleanup_loop_error_sleep(i)
  \/ hour_passes
InitCleanup == Start(FALSE, TRUE)
NextCleanup == StepCleanup
SpecCleanup == InitCleanup /\ [][NextCleanup]_vars

\* Two tasks adjusting the parameters of one session concurrently
InitConc == Start(FALSE, FALSE)
NextConc == \E t \in Tasks : StepAdjust(t)
SpecConc == InitConc /\ [][NextConc]_vars

\* The same, and each task goes on: every await inside adjust_parameters is
\* bounded by a timeout, and asyncio.Lock wakes its waiters in the order of
\* their arrival, so a task that finds the lock free again and again gets it
FairConc == InitConc /\ [][NextConc]_vars /\ \A t \in Tasks : SF_vars(StepAdjust(t))

\* ------------------------------------------------------------ properties
\* The awaits at which a task is inside a lock-protected field update
LockedPcs ==
  {"temp_visible", "temp_read", "temp_fill", "temp_verify",
   "max_visible", "max_read", "max_fill", "max_verify",
   "stop_count", "stop_remove", "stop_visible", "stop_add"}
\* The awaits at which a task is inside the top-p update
TopPPcs == {"topp_read", "topp_fill", "topp_verify"}
\* How an adjustment that reached the page ends without a confirmed value
FailedEnds == {"mismatch", "ValueError", "Exception", "ClientDisconnectedError"}

\* C1: in submit_prompt, once a checkpoint has seen the disconnect predicate
\* return true, no key press, click or file assignment follows in that call,
\* and the call ends with ClientDisconnectedError.
C1_SubmitAbandonsAtOnce ==
  \A t \in Tasks :
    call[t].op = "submit_prompt" /\ call[t].disc
      => /\ ~call[t].mutAfter
         /\ pc[t] = "idle" => call[t].result = "ClientDisconnectedError"

\* C2: in adjust_parameters, once a checkpoint has seen the disconnect
\* predicate return true, no fill, click or key press follows in that call,
\* and the call raises nothing but ClientDisconnectedError.
C2_AdjustAbandonsAtOnce ==
  \A t \in Tasks :
    call[t].op = "adjust_parameters" /\ call[t].disc
      => /\ ~call[t].mutAfter
         /\ pc[t] = "idle" => call[t].result \in {"ok", "ClientDisconnectedError"}

\* C3: in clear_chat_history, a checkpoint that sees the disconnect predicate
\* return true ends the call at once with ClientDisconnectedError, and no
\* click on the clear, confirm or submit/stop button follows it.
C3_ClearAbandonsAtOnce ==
  \A t \in Tasks :
    call[t].op = "clear_chat_history" /\ call[t].disc
      => /\ pc[t] = "idle"
         /\ call[t].result = "ClientDisconnectedError"
         /\ ~call[t].mutAfter

\* C3 happens: a clear_chat_history call was abandoned at a checkpoint.
C3_Witness ==
  /\ call[1].op = "clear_chat_history"
  /\ call[1].disc
  /\ call[1].result = "ClientDisconnectedError"

\* C4: the temperature and max-output-tokens entries change only when an
\* adjustment of that field returns; a value is stored only after a read of
\* the live control (a re-read when the control was filled) gave a value
\* equal to the clamped request (within 0.001 for the temperature, exactly
\* for the tokens), and the stored value is the value read.
C4_StoredOnlyWhenRead ==
  /\ [](\A t \in Tasks :
         /\ pc[t] = "after_temp" /\ adj[t].end \in {"read", "verified"}
              => /\ cache.temperature = ParseNumber(ui.temperature)
                 /\ cache.temperature # None
                 /\ Abs(The(cache.temperature) - adj[t].clamped) < TEMP_EPS
                 /\ adj[t].reads > adj[t].writes
         /\ pc[t] = "after_max" /\ adj[t].end \in {"read", "verified"}
              => /\ cache.max_output_tokens = ParseNumber(ui.max_tokens)
                 /\ cache.max_output_tokens # None
                 /\ The(cache.max_output_tokens) = adj[t].clamped
                 /\ adj[t].reads > adj[t].writes)
  /\ [][/\ cache'.temperature # cache.temperature /\ cache'.temperature # None
             => \E t \in Tasks : /\ pc'[t] = "after_temp"
                                 /\ adj'[t].end \in {"read", "verified"}
        /\ cache'.max_output_tokens # cache.max_output_tokens
             /\ cache'.max_output_tokens # None
             => \E t \in Tasks : /\ pc'[t] = "after_max"
                                 /\ adj'[t].end \in {"read", "verified"}]_vars

\* C4 happens: a temperature was filled, read back and stored.
C4_Witness ==
  /\ pc[1] = "after_temp"
  /\ adj[1].end = "verified"
  /\ adj[1].writes = 1
  /\ cache.temperature = Some(adj[1].clamped)

\* C5: when _adjust_stop_sequences stores the stop_sequences entry, the
\* chips in the page are exactly the stored set.
C5_StoredStopsAreTheChips ==
  \A t \in Tasks :
    pc[t] = "after_stop" /\ adj[t].field = "stop_sequences" /\ adj[t].end = "set"
      => /\ cache.stop_sequences # None
         /\ ui.chips = The(cache.stop_sequences)

\* C6: when the cache holds a value equal to the clamped request (within
\* 0.001 for the temperature, exactly for the tokens), the adjustment of the
\* field returns without waiting for, reading or writing the control and
\* leaves the cache as it is.
C6_CacheHitTouchesNothing ==
  [][\A t \in Tasks :
       /\ (/\ pc[t] = "temp_lock" /\ pc'[t] # "temp_lock"
           /\ cache.temperature # None
           /\ Abs(The(cache.temperature) - adj'[t].clamped) < TEMP_EPS)
            => /\ pc'[t] = "after_temp"
               /\ cache' = cache /\ ui' = ui /\ lock' = lock
               /\ adj'[t].waits = 0 /\ adj'[t].reads = 0 /\ adj'[t].writes = 0
       /\ (/\ pc[t] = "max_lock" /\ pc'[t] # "max_lock"
           /\ cache.max_output_tokens = Some(adj'[t].clamped))
            => /\ pc'[t] = "after_max"
               /\ cache' = cache /\ ui' = ui /\ lock' = lock
               /\ adj'[t].waits = 0 /\ adj'[t].reads = 0 /\ adj'[t].writes = 0]_vars

\* C6 happens: a temperature adjustment was answered from the cache.
C6_Witness ==
  /\ pc[1] = "after_temp"
  /\ adj[1].end = "hit"
  /\ cache.temperature # None
  /\ adj[1].reads = 0

\* C7 as the spec has it: when the previous call confirmed the top_p this
\* call requests, the top-p adjustment reads and writes nothing.
C7_RepeatedTopPTouchesNothing ==
  \A t \in Tasks :
    pc[t] = "after_topp" /\ adj[t].again
      => adj[t].reads = 0 /\ adj[t].writes = 0

\* C7 amended: top-p is not cached. When the previous call confirmed the
\* top_p this call requests, the adjustment still reads the control once it
\* is visible; it writes nothing when the value read is the clamped request,
\* and writes once, then reads again, when it is not.
C7_RepeatedTopPIsReadAgain ==
  \A t \in Tasks :
    pc[t] = "after_topp" /\ adj[t].again
      => /\ adj[t].waits = 1
         /\ adj[t].end \in {"read", "verified", "mismatch", "ValueError"}
              => adj[t].reads >= 1
         /\ adj[t].end = "read"
              => /\ adj[t].reads = 1 /\ adj[t].writes = 0
                 /\ ParseNumber(ui.top_p) = Some(adj[t].clamped)
         /\ adj[t].end \in {"verified", "mismatch"}
              => adj[t].reads = 2 /\ adj[t].writes = 1

\* C7 happens: a repeated top_p was found in place by a read of the control.
C7_Witness ==
  /\ pc[1] = "after_topp"
  /\ adj[1].again
  /\ adj[1].end = "read"
  /\ adj[1].reads = 1

\* C8: when an adjustment of the temperature, the max output tokens or the
\* stop sequences reached the page and ends with a mismatch, a non-numeric
\* read-back, an interaction failure or an abandonment, the cache holds no
\* entry for the field when the adjustment returns or raises.
C8_FailureEvicts ==
  \A t \in Tasks :
    /\ adj[t].field \in {"temperature", "max_output_tokens", "stop_sequences"}
    /\ adj[t].end \in FailedEnds
    /\ pc[t] \in {"after_temp", "after_max", "after_stop", "idle"}
    => cache[adj[t].field] = None

\* C8 happens: a max-output-tokens adjustment ended with a mismatch while the
\* temperature entry stayed.
C8_Witness ==
  /\ pc[1] = "after_max"
  /\ adj[1].end = "mismatch"
  /\ cache.max_output_tokens = None
  /\ cache.temperature # None

\* C9 as the spec has it: the page and cache steps of two field updates
\* (temperature, max output tokens, stop sequences, top-p) of two tasks never
\* interleave.
C9_FieldUpdatesNeverInterleave ==
  \A t1, t2 \in Tasks :
    t1 # t2 => ~(pc[t1] \in LockedPcs \cup TopPPcs /\ pc[t2] \in LockedPcs \cup TopPPcs)

\* C9 amended: the updates of the temperature, the max output tokens and the
\* stop sequences hold the session lock from their first to their last step,
\* so no two of them interleave; top-p takes no lock.
C9_LockedUpdatesNeverInterleave ==
  /\ \A t \in Tasks : pc[t] \in LockedPcs <=> lock = t
  /\ \A t1, t2 \in Tasks : t1 # t2 => ~(pc[t1] \in LockedPcs /\ pc[t2] \in LockedPcs)

\* C9 happens: one task is inside a locked update while the other waits for
\* the lock.
C9_Witness ==
  /\ lock = 1
  /\ pc[1] = "temp_fill"
  /\ pc[2] = "temp_lock"

\* C10: adjust_parameters raises only ClientDisconnectedError, and only
\* after a checkpoint saw the disconnect predicate return true; whatever else
\* fails in a field or toggle step, it returns normally.
C10_OnlyAbandonmentPropagates ==
  \A t \in Tasks :
    call[t].op = "adjust_parameters" /\ pc[t] = "idle"
      => \/ call[t].result = "ok"
         \/ call[t].result = "ClientDisconnectedError" /\ call[t].disc

\* clamp(x, lo, hi) as the specification writes it
clamp(x, lo, hi) == IF x < lo THEN lo ELSE IF x > hi THEN hi ELSE x
\* modelMax: the supported_max_output_tokens of the model in force when the
\* catalog has one that is positive, 65536 otherwise
modelMax(model_id, list) ==
  LET positive == { i \in 1..Len(list) :
                      /\ list[i].id = model_id
                      /\ list[i].supported # None
                      /\ The(list[i].supported).num
                      /\ The(list[i].supported).v > 0 } IN
  IF positive = {} THEN 65536 ELSE The(list[CHOOSE i \in positive : TRUE].supported).v

\* C11: whatever value a call requests, the text filled into the temperature
\* control is that of clamp(t, 0, 2), into the top-p control that of
\* clamp(p, 0, 1) and into the max-output-tokens control that of
\* clamp(n, 1, modelMax); no out-of-range value is ever written.
C11_WrittenValueIsClamped ==
  \A t \in Tasks :
    adj[t].written # None =>
      /\ adj[t].field = "temperature"
           => adj[t].written = Some(NumStr(clamp(adj[t].request, 0, 4000)))
      /\ adj[t].field = "top_p"
           => adj[t].written = Some(NumStr(clamp(adj[t].request, 0, 100)))
      /\ adj[t].field = "max_output_tokens"
           => adj[t].written =
                Some(NumStr(clamp(adj[t].request, 1,
                                  modelMax(adj[t].model_id, adj[t].list))))

\* C11 happens: a request above the model's ceiling was written as the ceiling.
C11_Witness ==
  /\ adj[1].field = "max_output_tokens"
  /\ adj[1].request = 70000
  /\ adj[1].model_id = "m-small"
  /\ adj[1].written = Some(NumStr(8192))

\* The strings a stop request carries, and the set of the distinct,
\* whitespace-trimmed, non-empty ones
StopStrings(stop_sequences) ==
  IF stop_sequences.kind = "str" THEN {stop_sequences.s}
  ELSE IF stop_sequences.kind = "list"
  THEN { stop_sequences.l[i].s : i \in { j \in 1..Len(stop_sequences.l) :
                                          stop_sequences.l[j].isstr } }
  ELSE {}
Normalized(stop_sequences) == { strip(x) : x \in StopStrings(stop_sequences) } \ {<<>>}

\* C12: a stop-sequence adjustment that returns normally leaves in the cache
\* the set of the distinct, trimmed, non-empty strings of the request; and
\* when the preceding stop-sequence adjustment of the session returned
\* normally with the same normalized set, the adjustment waits for, reads
\* and writes nothing in the page.
C12_StopsNormalizedAndCached ==
  \A t \in Tasks :
    adj[t].field = "stop_sequences" =>
      /\ adj[t].end \in {"set", "hit"}
           => cache.stop_sequences = Some(Normalized(The(adj[t].stop)))
      /\ adj[t].again
           => adj[t].waits = 0 /\ adj[t].reads = 0 /\ adj[t].writes = 0

\* C12 happens: ["a", "a", " b "] was requested again and found in the cache
\* as {"a", "b"}.
C12_Witness ==
  /\ adj[1].field = "stop_sequences"
  /\ adj[1].again
  /\ adj[1].end = "hit"
  /\ Len(The(adj[1].stop).l) = 3
  /\ cache.stop_sequences = Some({<<"a">>, <<"b">>})

\* The awaits of the thinking-budget toggle and of the budget control
TogPcs == {"tog_read", "tog_click", "tog_verify"}
BudPcs == {"bud_visible", "bud_fill", "bud_verify"}

\* The integer a numeric text denotes: decimal digits, with a sign or blanks
\* around them allowed; none for any other text
RECURSIVE DigitsOnly(_)
DigitsOnly(s) == s = <<>> \/ (digit_value(Head(s)) >= 0 /\ DigitsOnly(Tail(s)))
RECURSIVE DecimalValue(_)
DecimalValue(s) ==
  IF s = <<>> THEN 0
  ELSE 10 * DecimalValue(SubSeq(s, 1, Len(s) - 1)) + digit_value(s[Len(s)])
IntegerOf(s) ==
  LET body == strip(s)
      signed == body # <<>> /\ Head(body) \in {"-", "+"}
      digits == IF signed THEN Tail(body) ELSE body IN
  IF digits = <<>> \/ ~DigitsOnly(digits) THEN None
  ELSE IF signed /\ Head(body) = "-" THEN Some(0 - DecimalValue(digits))
  ELSE Some(DecimalValue(digits))

\* The budget the specification resolves a reasoning effort to (None:
\* unresolved)
ResolvedBudget(e) ==
  IF e.kind = "none" THEN Some(DEFAULT_THINKING_BUDGET)
  ELSE IF e.kind = "int" THEN Some(e.n)
  ELSE IF e.kind # "str" THEN None
  ELSE IF lower(e.s) = <<"l", "o", "w">> THEN Some(1000)
  ELSE IF lower(e.s) = <<"m", "e", "d", "i", "u", "m">> THEN Some(8000)
  ELSE IF lower(e.s) = <<"h", "i", "g", "h">> THEN Some(24000)
  ELSE IF lower(e.s) = <<"n", "o", "n", "e">> THEN Some(DEFAULT_THINKING_BUDGET)
  ELSE IntegerOf(e.s)

\* C13: the budget a supplied reasoning effort is resolved to is 1000, 8000
\* or 24000 for "low", "medium", "high" in any case, the default budget for
\* "none" in any case and for an absent value, the integer itself, the
\* integer a numeric string denotes, and none for anything else; the budget
\* control is waited for, written and read only with a resolved budget, and
\* an unresolved effort makes the call raise nothing.
C13_BudgetResolution ==
  /\ [](\A t \in Tasks :
          /\ pc[t] \in BudPcs
               => /\ loc[t].budget # None
                  /\ loc[t].budget = ResolvedBudget(The(loc[t].reasoning_effort))
          /\ pc[t] \in TogPcs /\ The(loc[t].reasoning_effort).kind # "none"
               => loc[t].budget = ResolvedBudget(The(loc[t].reasoning_effort)))
  /\ [][\A t \in Tasks :
          /\ pc[t] \in TogPcs
          /\ ResolvedBudget(The(loc[t].reasoning_effort)) = None
          /\ pc'[t] # pc[t]
          => \/ pc'[t] \in TogPcs \cup {"search"}
             \/ /\ pc'[t] = "idle"
                /\ call'[t].result = "ClientDisconnectedError"
                /\ call'[t].disc]_vars

\* C13 happens: the string "7" was resolved to 7 and is about to be written.
C13_Witness ==
  /\ pc[1] = "bud_fill"
  /\ loc[1].reasoning_effort = Some(EffortStr(<<"7">>))
  /\ loc[1].budget = Some(7)

\* C13 happens too: "7.5" was left unresolved and the budget control skipped.
C13_WitnessUnresolved ==
  /\ pc[1] = "tog_verify"
  /\ loc[1].reasoning_effort = Some(EffortStr(<<"7", ".", "5">>))
  /\ loc[1].budget = None

\* C14: with a reasoning effort in the request the thinking toggle is to be
\* on and the budget written is the parsed one; with none the toggle is to
\* be what ENABLE_THINKING_BUDGET says, and the budget control is reached
\* only when that flag is on, with the default budget.
C14_ThinkingBudgetPolicy ==
  \A t \in Tasks :
    pc[t] \in TogPcs \cup BudPcs =>
      LET supplied == The(loc[t].reasoning_effort).kind # "none" IN
      /\ pc[t] \in TogPcs
           => loc[t].should = (supplied \/ loc[t].ENABLE_THINKING_BUDGET)
      /\ pc[t] \in BudPcs /\ supplied
           => loc[t].budget = parse_thinking_budget(The(loc[t].reasoning_effort))
      /\ pc[t] \in BudPcs /\ ~supplied
           => /\ loc[t].ENABLE_THINKING_BUDGET
              /\ loc[t].budget = Some(DEFAULT_THINKING_BUDGET)

\* C14 happens: the default is off, the request carries an effort, the toggle
\* was found off and is about to be clicked on.
C14_Witness ==
  /\ pc[1] = "tog_click"
  /\ ~loc[1].ENABLE_THINKING_BUDGET
  /\ loc[1].reasoning_effort = Some(EffortInt(512))
  /\ loc[1].should

\* The awaits of the search toggle
SearchPcs == {"search_read", "search_click", "search_verify"}
\* The request carries a recognized search-tool directive: a tool with
\* google_search_retrieval, or a function tool named googleSearch
HasSearchDirective(tools) ==
  /\ tools.kind = "list"
  /\ \E i \in 1..Len(tools.l) :
       /\ tools.l[i].isdict
       /\ \/ tools.l[i].gsr
          \/ tools.l[i].function.kind = "dict" /\ tools.l[i].function.name = "googleSearch"

\* C15: the state the search toggle should have is true when the request
\* carries a recognized search-tool directive and ENABLE_GOOGLE_SEARCH in
\* every other case, a tools list without a search tool included.
C15_SearchDirectiveElseDefault ==
  \A t \in Tasks :
    pc[t] \in SearchPcs =>
      loc[t].should = (HasSearchDirective(The(loc[t].tools)) \/ loc[t].ENABLE_GOOGLE_SEARCH)

\* C15 as the code has it: ENABLE_GOOGLE_SEARCH decides only when the request
\* has no tools key or its value is None; a tools value that is present
\* decides alone, true with a recognized directive and false without one.
C15_SearchDirectiveElseDefaultWithoutTools ==
  \A t \in Tasks :
    pc[t] \in SearchPcs =>
      loc[t].should =
        IF The(loc[t].tools).kind \in {"absent", "none"}
        THEN loc[t].ENABLE_GOOGLE_SEARCH
        ELSE HasSearchDirective(The(loc[t].tools))

\* C15 happens: the default is on, the request carries an empty tools list,
\* and the toggle is to be off.
C15_Witness ==
  /\ pc[1] = "search_read"
  /\ loc[1].ENABLE_GOOGLE_SEARCH
  /\ loc[1].tools = Some(ToolsList(<<>>))
  /\ ~loc[1].should

\* C16: a clear_chat_history call that finds the session fresh (the clear
\* button stays disabled and the address is the new-chat one) returns
\* normally when it is not abandoned, and clicks nothing at all.
C16_FreshResetTouchesNothing ==
  \A t \in Tasks :
    /\ call[t].op = "clear_chat_history"
    /\ call[t].skip = "new_chat"
    /\ pc[t] = "idle"
    /\ ~call[t].disc
    => call[t].result = "ok" /\ call[t].clicked = {}

\* C16 as the code has it: such a call clicks neither the clear nor the
\* confirm button and raises nothing but the abandonment seen by a
\* checkpoint; the submit/stop button is clicked at the start of the call
\* when it is found enabled.
C16_FreshResetClicksAtMostStop ==
  \A t \in Tasks :
    /\ call[t].op = "clear_chat_history"
    /\ call[t].skip = "new_chat"
    => /\ pc[t] = "idle"
       /\ call[t].clicked \subseteq {"submit"}
       /\ ~call[t].snap
       /\ \/ call[t].result = "ok"
          \/ call[t].result = "ClientDisconnectedError" /\ call[t].disc

\* C16 happens: right after a reset that returned normally, a second reset
\* found the session fresh, returned normally, and had clicked the
\* submit/stop button.
C16_Witness ==
  /\ call[1].op = "clear_chat_history"
  /\ call[1].prior
  /\ call[1].skip = "new_chat"
  /\ call[1].result = "ok"
  /\ call[1].clicked = {"submit"}

\* C17: a clear_chat_history call that finds the clear button disabled on an
\* address that is not the new-chat one goes on with the clear protocol: it
\* clicks the clear or the confirm button.
C17_StaleResetProceeds ==
  \A t \in Tasks :
    /\ call[t].op = "clear_chat_history"
    /\ call[t].skip = "not_new_chat"
    /\ pc[t] = "idle"
    /\ ~call[t].disc
    => call[t].clicked \cap {"clear", "confirm"} # {}

\* C17 as the code has it: such a call skips the clear protocol as well; it
\* clicks neither the clear nor the confirm button, takes no snapshot and
\* returns normally unless a checkpoint sees the abandonment.
C17_StaleResetSkips ==
  \A t \in Tasks :
    /\ call[t].op = "clear_chat_history"
    /\ call[t].skip = "not_new_chat"
    => /\ pc[t] = "idle"
       /\ call[t].clicked \cap {"clear", "confirm"} = {}
       /\ ~call[t].snap
       /\ \/ call[t].result = "ok"
          \/ call[t].result = "ClientDisconnectedError" /\ call[t].disc

\* C17 happens: the clear button stayed disabled on a chat's own address and
\* the call returned normally.
C17_Witness ==
  /\ call[1].op = "clear_chat_history"
  /\ call[1].skip = "not_new_chat"
  /\ call[1].result = "ok"
  /\ ~call[1].disc

\* C18: the overlay is awaited only after the clear button was clicked, and
\* when it does not appear the confirm button is never clicked, a snapshot
\* is taken and clear_chat_history raises an error.
C18_MissingOverlayIsFatal ==
  \A t \in Tasks :
    call[t].op = "clear_chat_history" =>
      /\ call[t].overlay \in {"appeared", "missing"} => "clear" \in call[t].clicked
      /\ call[t].overlay = "initial" => "clear" \notin call[t].clicked
      /\ call[t].overlay = "missing"
           => /\ pc[t] = "idle"
              /\ "confirm" \notin call[t].clicked
              /\ call[t].snap
              /\ call[t].result = "Exception"

\* C18 happens: the clear button was clicked and the overlay did not appear.
C18_Witness ==
  /\ call[1].op = "clear_chat_history"
  /\ call[1].overlay = "missing"
  /\ call[1].clicked = {"clear"}
  /\ call[1].result = "Exception"

\* C19: after the confirm click the dialog is polled at most 3 times, with a
\* pause after every failed poll that is not the last; the call goes on to
\* the verification and returns normally only when one poll saw both the
\* confirm button and the overlay hidden, and when the third poll fails
\* clear_chat_history raises an error.
C19_DisappearPollIsBounded ==
  \A t \in Tasks :
    call[t].op = "clear_chat_history" =>
      /\ call[t].attempts <= 3
      /\ call[t].attempts > 0 => "confirm" \in call[t].clicked
      /\ call[t].sleeps \in {call[t].attempts - 1, call[t].attempts} \cap (0..2)
      /\ pc[t] = "clear_hidden" => call[t].sleeps = call[t].attempts
      /\ pc[t] = "clear_verify" => call[t].hidden = <<TRUE, TRUE>>
      /\ pc[t] = "idle" /\ call[t].result = "ok" /\ call[t].skip = "none"
           => call[t].hidden = <<TRUE, TRUE>>
      /\ call[t].attempts = 3 /\ call[t].hidden # <<TRUE, TRUE>>
           => pc[t] = "idle" /\ call[t].result = "Exception"

\* C19 happens: three polls failed, two pauses were taken, the call raised.
C19_Witness ==
  /\ call[1].op = "clear_chat_history"
  /\ call[1].attempts = 3
  /\ call[1].sleeps = 2
  /\ call[1].result = "Exception"

\* C20: in submit_prompt, when the wait for the submit button to be enabled
\* fails, a snapshot is taken and the call raises an error, and neither the
\* shortcut chord nor a click on the submit button is sent in that call;
\* both are sent only after the button reported enabled.
C20_DisabledSubmitIsFatal ==
  \A t \in Tasks :
    call[t].op = "submit_prompt" =>
      /\ call[t].enabled = "failed"
           => /\ pc[t] = "idle"
              /\ call[t].result = "Exception"
              /\ call[t].snap
              /\ call[t].clicked \cap {"shortcut", "submit"} = {}
      /\ call[t].clicked \cap {"shortcut", "submit"} # {} => call[t].enabled = "ok"

\* C20 happens: the submit button did not become enabled and the call raised.
C20_Witness ==
  /\ call[1].op = "submit_prompt"
  /\ call[1].enabled = "failed"
  /\ call[1].result = "Exception"
  /\ pc[1] = "idle"

\* C21: in submit_prompt, the submit button is clicked if and only if
\* _try_shortcut_submit returned False; a click that fails makes the call
\* raise an error, and after a shortcut that verified the button is not
\* clicked.
C21_ClickIffShortcutUnverified ==
  \A t \in Tasks :
    call[t].op = "submit_prompt" =>
      /\ "submit" \in call[t].clicked
           <=> (call[t].shortcut = "False" /\ pc[t] # "submit_click")
      /\ call[t].shortcut = "True" => call[t].click = "none"
      /\ call[t].click = "failed"
           => /\ pc[t] = "idle"
              /\ call[t].result = "Exception"

\* C21 happens: the shortcut did not verify, the submit button was clicked,
\* the click failed and the call raised.
C21_Witness ==
  /\ call[1].op = "submit_prompt"
  /\ call[1].shortcut = "False"
  /\ call[1].click = "failed"
  /\ call[1].result = "Exception"

\* What the verification after the chord saw
Signals(c) == {c.empty, c.disabled, c.container}

\* C22 as stated: after the chord, the shortcut submission is reported as
\* verified whenever the prompt input is now empty, the submit button is now
\* disabled or a response container is now visible, and as not verified when
\* none of these holds and no read of the verification raised.
C22_AnySignalVerifies ==
  \A t \in Tasks :
    call[t].op = "submit_prompt" /\ call[t].shortcut # "none" /\ call[t].empty # "none"
      => /\ "yes" \in Signals(call[t]) => call[t].shortcut = "True"
         /\ Signals(call[t]) \subseteq {"no"} => call[t].shortcut = "False"

\* C22 as the code has it: the empty prompt input verifies the submission
\* only when the input held text before the chord; the disabled submit button
\* and the visible response container verify it as stated; when none of the
\* three holds and no read raised, the submission is reported as not verified.
C22_ClearedInputVerifies ==
  \A t \in Tasks :
    call[t].op = "submit_prompt" /\ call[t].shortcut # "none" /\ call[t].empty # "none"
      => /\ \/ call[t].empty = "yes" /\ call[t].original
            \/ call[t].disabled = "yes"
            \/ call[t].container = "yes"
            => call[t].shortcut = "True"
         /\ Signals(call[t]) \subseteq {"no"} => call[t].shortcut = "False"
         /\ /\ call[t].empty = "yes"
            /\ ~call[t].original
            /\ call[t].disabled # "yes"
            /\ call[t].container \in {"no", "raised"}
            => call[t].shortcut = "False"

\* C22 happens: the prompt input held text before the chord and was found
\* empty after it, and the submission was reported as verified.
C22_Witness ==
  /\ call[1].op = "submit_prompt"
  /\ call[1].original
  /\ call[1].empty = "yes"
  /\ call[1].shortcut = "True"

\* C23 as stated: any read of the verification that raises (of the prompt
\* input, of the submit button's disabled state, of the response container)
\* makes the shortcut submission count as a success, so that the submit
\* button is not clicked.
C23_AnyVerificationErrorIsSuccess ==
  \A t \in Tasks :
    /\ call[t].op = "submit_prompt"
    /\ call[t].shortcut # "none"
    /\ "raised" \in Signals(call[t])
    => /\ call[t].shortcut = "True"
       /\ call[t].click = "none"

\* C23 as the code has it: a read of the prompt input that raises ends the
\* verification with a success, and the submit button is not clicked; a read
\* of the submit button's disabled state or of the response container that
\* raises only leaves that check unmet, and when no other check is met the
\* submission is reported as not verified and the submit button is clicked.
C23_InputReadErrorIsSuccess ==
  \A t \in Tasks :
    call[t].op = "submit_prompt" /\ call[t].shortcut # "none"
      => /\ call[t].empty = "raised"
              => /\ call[t].shortcut = "True"
                 /\ call[t].click = "none"
                 /\ call[t].disabled = "none"
                 /\ call[t].container = "none"
         /\ /\ call[t].empty \in {"yes", "no"}
            /\ ~(call[t].empty = "yes" /\ call[t].original)
            /\ "raised" \in {call[t].disabled, call[t].container}
            /\ "yes" \notin {call[t].disabled, call[t].container}
            => /\ call[t].shortcut = "False"
               /\ pc[t] # "submit_click" => "submit" \in call[t].clicked

\* C23 happens: the read of the prompt input raised after the chord, the
\* submission counted as a success and the call returned without a click on
\* the submit button.
C23_Witness ==
  /\ call[1].op = "submit_prompt"
  /\ call[1].empty = "raised"
  /\ call[1].shortcut = "True"
  /\ call[1].result = "ok"
  /\ "submit" \notin call[1].clicked

\* The upload methods in the order of _try_multiple_upload_methods
MethodOrder == <<"direct", "chooser", "drag_drop">>

\* C24: the upload methods are tried in the order direct file input,
\* standard chooser, drag-and-drop, each one only when every earlier one
\* returned failure; when an indicator of the upload is there after the
\* files were assigned to a file input, neither the chooser nor the
\* drag-and-drop is tried.
C24_UploadMethodsInOrder ==
  \A t \in Tasks :
    call[t].op = "submit_prompt" =>
      LET m == call[t].methods IN
      /\ Len(m) <= Len(MethodOrder)
      /\ \A i \in 1..Len(m) : m[i][1] = MethodOrder[i]
      /\ \A i \in 1..(Len(m) - 1) : m[i][2] = "False"
      /\ pc[t] = "upload_chooser" => Len(m) = 1 /\ m[1][2] = "False"
      /\ pc[t] = "upload_drag_drop" => Len(m) = 2 /\ m[2][2] = "False"
      /\ call[t].indicator = "present" => m = << <<"direct", "True">> >>

\* C24 happens: an indicator of the upload was there after the files were
\* assigned to a file input, and the call went on to its end.
C24_Witness ==
  /\ call[1].op = "submit_prompt"
  /\ call[1].indicator = "present"
  /\ call[1].methods # <<>>
  /\ call[1].result = "ok"

\* The awaits of _upload_files_with_diagnostics
UploadPcs ==
  {"upload_diagnose", "upload_function_button", "upload_methods",
   "upload_chooser", "upload_drag_drop", "upload_copyright"}

\* C25: whatever the upload steps do (each may fail or raise), the upload
\* never raises to submit_prompt and never ends the call: the call stays in
\* the upload or goes on to the wait for the submit button, with or without
\* the files.
C25_UploadNeverRaises ==
  [][\A t \in Tasks :
       pc[t] \in UploadPcs
         => /\ pc'[t] \in UploadPcs \cup {"submit_enabled"}
            /\ call'[t].op = "submit_prompt"
            /\ call'[t].result = "running"]_vars

\* C25 happens: every upload method ended in a failure, the last one by
\* raising, and the call went on to wait for the submit button and to submit.
C25_Witness ==
  /\ call[1].op = "submit_prompt"
  /\ Len(call[1].methods) = 3
  /\ call[1].methods[3][2] = "raise"
  /\ call[1].enabled = "ok"
  /\ call[1].result = "ok"

\* A text of blanks only, the empty text included
Blank(text) == \A i \in 1..Len(text) : text[i] = " "

\* C26: in get_response the final content is extracted whether the
\* completion detection returned True or False; extracted content that is
\* None, empty or blank is returned as the empty string, with a snapshot
\* taken and no error raised, and any other content is returned as it is.
C26_EmptyContentIsReturned ==
  \A t \in Tasks :
    call[t].op = "get_response" =>
      /\ call[t].completion # "none"
           => pc[t] = "response_content" \/ call[t].extracted # "none"
      /\ call[t].extracted = "returned"
           => /\ pc[t] = "idle"
              /\ call[t].result = "ok"
              /\ IF call[t].content = None \/ Blank(The(call[t].content))
                 THEN call[t].value = Some(<<>>) /\ call[t].snap
                 ELSE call[t].value = call[t].content

\* C26 happens: the completion detection failed, the content extracted all
\* the same was blank, and the call returned the empty string.
C26_Witness ==
  /\ call[1].op = "get_response"
  /\ call[1].completion = "False"
  /\ call[1].extracted = "returned"
  /\ call[1].content = Some(<<" ">>)
  /\ call[1].value = Some(<<>>)
  /\ call[1].result = "ok"

\* How a clear_chat_history call ended
Cleared(c) ==
  c.result = "ok" /\ "confirm" \in c.clicked /\ c.hidden = <<TRUE, TRUE>>
SkippedClear(c) ==
  c.result = "ok" /\ c.skip # "none" /\ c.clicked \cap {"clear", "confirm"} = {}
FatalError(c) == c.result = "Exception"
Abandoned(c) == c.result = "ClientDisconnectedError"
EndsOfClear(c) ==
  {k \in {"Cleared", "Skipped", "Fatal", "Abandoned"} :
     \/ k = "Cleared" /\ Cleared(c)
     \/ k = "Skipped" /\ SkippedClear(c)
     \/ k = "Fatal" /\ FatalError(c)
     \/ k = "Abandoned" /\ Abandoned(c)}

\* C27: every clear_chat_history call ends, whatever the page does, and it
\* ends in exactly one of: cleared, skipped without clearing, a fatal error,
\* abandonment; no call polls or retries forever.
C27_ClearTerminates ==
  /\ [](call[1].op = "clear_chat_history" /\ pc[1] = "idle"
          => Cardinality(EndsOfClear(call[1])) = 1)
  /\ (call[1].op = "clear_chat_history" /\ call[1].result = "running")
       ~> (pc[1] = "idle" /\ Cardinality(EndsOfClear(call[1])) = 1)

\* C27 happens: a call that polled three times for the dialog to disappear
\* ended, cleared.
C27_Witness ==
  /\ call[1].op = "clear_chat_history"
  /\ pc[1] = "idle"
  /\ call[1].attempts = 3
  /\ Cleared(call[1])

\* The awaits before the click on a toggle and before the read after it
ToggleClickPcs == {"tog_click", "search_click"}
ToggleVerifyPcs == {"tog_verify", "search_verify"}
\* The state read at the start is not the state wanted
ReadDiffers(g) == g.read \in AriaChecked /\ (g.read = "true") # g.should

\* C28: the search toggle and the thinking-budget toggle are clicked in a
\* call if and only if the checked state read at the start differs from the
\* state wanted, and at most once; after the click the state is read again,
\* and neither a state that is still wrong nor a failure of that read raises.
C28_ToggleClickedOnlyOnMismatch ==
  /\ [](\A t \in Tasks :
          LET g == call[t].toggle IN
          g.control # "none" =>
            /\ g.clicks <= 1
            /\ g.clicks = 1 => ReadDiffers(g)
            /\ ReadDiffers(g) => pc[t] \in ToggleClickPcs \/ g.clicks = 1
            /\ g.click = "passed" => pc[t] \in ToggleVerifyPcs \/ g.reread # "unread"
            /\ g.reread # "unread" => g.click = "passed")
  /\ [][\A t \in Tasks :
          pc[t] \in ToggleVerifyPcs
            => /\ call'[t].toggle.reread # "unread"
               /\ call'[t].result \in {"running", "ok"}
               /\ call'[t].toggle.clicks = 1]_vars

\* C28 happens: the search toggle was not in the state wanted, it was
\* clicked, it was read again and was still wrong, and the call returned.
C28_Witness ==
  LET g == call[1].toggle IN
  /\ g.control = "google_search"
  /\ g.clicks = 1
  /\ g.reread \in AriaChecked
  /\ (g.reread = "true") # g.should
  /\ pc[1] = "idle"
  /\ call[1].result = "ok"

\* The control of a field, the await before its fill, and whether the field
\* is kept in the cache
ControlOf(field) == IF field = "max_output_tokens" THEN "max_tokens" ELSE field
FillPcOf(field) ==
  IF field = "temperature" THEN "temp_fill"
  ELSE IF field = "max_output_tokens" THEN "max_fill" ELSE "topp_fill"
NumberFields == {"temperature", "max_output_tokens", "top_p"}

\* C29: when the value read from the control of temperature, max output
\* tokens or top-p, on a cache miss, is already the clamped request, nothing
\* is written to the control; for temperature and max output tokens the
\* value read is then stored in the cache.
C29_EqualLiveValueIsNotWritten ==
  \A t \in Tasks :
    adj[t].field \in NumberFields =>
      /\ pc[t] = FillPcOf(adj[t].field)
           => /\ adj[t].writes = 0
              /\ ParseNumber(ui[ControlOf(adj[t].field)]) # Some(adj[t].clamped)
      /\ adj[t].writes > 0 => adj[t].end # "read"
      /\ adj[t].end = "read"
           => /\ adj[t].reads = 1
              /\ adj[t].writes = 0
              /\ adj[t].written = None
              /\ adj[t].field # "top_p"
                   => /\ cache[adj[t].field] = ParseNumber(ui[ControlOf(adj[t].field)])
                      /\ cache[adj[t].field] # None

\* C29 happens: the max output tokens control already showed the clamped
\* request, nothing was written, and the value read is in the cache.
C29_Witness ==
  /\ adj[1].field = "max_output_tokens"
  /\ adj[1].end = "read"
  /\ adj[1].writes = 0
  /\ ui.max_tokens = str(adj[1].clamped)
  /\ cache.max_output_tokens = Some(adj[1].clamped)

\* C30: the loop that removes the chips of the stop sequences ends: it sends
\* at most (number of chips counted before the loop + 5) clicks to a remove
\* button, sends none and is left once no chip remains, and is left
\* eventually whatever the page does with its chips after a click.
C30_RemovalLoopTerminates ==
  /\ [](\A t \in Tasks : adj[t].removes <= adj[t].initial + 5)
  /\ [][\A t \in Tasks :
          /\ adj'[t].removes > adj[t].removes
               => pc[t] = "stop_remove" /\ ui.chips # {}
          /\ pc[t] = "stop_remove" /\ ui.chips = {} => pc'[t] # "stop_remove"]_vars
  /\ \A t \in Tasks : (pc[t] = "stop_remove") ~> (pc[t] # "stop_remove")

\* C30 happens: the loop was left after (counted chips + 5) clicks although
\* the page holds more chips than at the start.
C30_Witness ==
  /\ adj[1].field = "stop_sequences"
  /\ pc[1] # "stop_remove"
  /\ adj[1].initial > 0
  /\ adj[1].removes = adj[1].initial + 5
  /\ Cardinality(ui.chips) > adj[1].initial

\* The user agent names a Mac
NamesMac(agent) == agent \in {"macintosh", "mac os x"}

\* C31: the modifier of the chord is Meta for the hint Darwin and Control for
\* the hints Windows and Linux, the page not being asked; without such a hint
\* it follows the platform string the page reports; when that string is
\* unavailable or empty the user agent is asked and the modifier is Meta
\* exactly when the user agent names a Mac.
C31_ModifierKeyChoice ==
  \A t \in Tasks :
    call[t].modifier # "none" =>
      /\ call[t].hint = "Darwin"
           => /\ call[t].modifier = "Meta"
              /\ call[t].platform_read = "unasked" /\ call[t].agent_read = "unasked"
      /\ call[t].hint \in {"Windows", "Linux"}
           => /\ call[t].modifier = "Control"
              /\ call[t].platform_read = "unasked" /\ call[t].agent_read = "unasked"
      /\ call[t].hint \notin {"Darwin", "Windows", "Linux"}
           => /\ call[t].platform_read # "unasked"
              /\ call[t].platform_read = "returned" /\ call[t].platform # <<>>
                   => /\ call[t].agent_read = "unasked"
                      /\ call[t].modifier = "Meta" <=> platform_is_mac(call[t].platform)
              /\ call[t].platform_read = "raised" \/ call[t].platform = <<>>
                   => /\ call[t].agent_read = "returned"
                      /\ call[t].modifier = "Meta" <=> NamesMac(call[t].agent)

\* C32: in a call of submit_prompt whose chord was sent and taken by the
\* page for a submission, no click on the submit button follows.
C32_SubmittedAtMostOnce ==
  \A t \in Tasks : call[t].triggered => call[t].click # "ok"

\* C33: the click of clear_chat_history on the submit/stop button never
\* submits a prompt left in the input of a page on which no generation runs.
C33_ClearStartsNoGeneration ==
  \A t \in Tasks : call[t].prestep # "started"

\* What holds of the clicks of one clear_chat_history call c on the clear
\* and the confirm button, whatever its end
ClearClicksInOrder(c) ==
  /\ c.counts.confirm <= 1
  /\ c.counts.clear <= 1
  /\ c.counts.confirm = 1 => c.overlay \in {"initial", "appeared"}
  /\ c.overlay = "initial" => c.counts.clear = 0

\* C34 as stated: the confirm button is clicked exactly once in every call
\* of clear_chat_history that returns normally, and only after the overlay
\* was seen; the clear button at most once, and not when the overlay was
\* there at the start.
C34_ConfirmClickedOnEveryReturn ==
  \A t \in Tasks :
    call[t].op = "clear_chat_history" =>
      /\ ClearClicksInOrder(call[t])
      /\ call[t].result = "ok" => call[t].counts.confirm = 1

\* C34: the same, for the calls that found the clear button enabled and went
\* through _execute_chat_clear without a failure; a call that skipped the
\* clear returns normally with no click on either button.
C34_ConfirmClickedOnceWhenAttempted ==
  \A t \in Tasks :
    call[t].op = "clear_chat_history" =>
      /\ ClearClicksInOrder(call[t])
      /\ (pc[t] \in {"clear_hidden", "clear_verify"}
            \/ (call[t].result = "ok" /\ call[t].skip = "none"))
           => call[t].counts.confirm = 1
      /\ call[t].result = "ok" /\ call[t].skip # "none"
           => call[t].counts.confirm = 0 /\ call[t].counts.clear = 0

\* C34 happens: the overlay was there at the start, the confirm button was
\* clicked once and the clear button not at all, and the call returned.
C34_Witness ==
  /\ call[1].op = "clear_chat_history"
  /\ call[1].result = "ok"
  /\ call[1].overlay = "initial"
  /\ call[1].counts = [clear |-> 0, confirm |-> 1]

\* The awaits at which a task waits for the session lock
LockWaitPcs == {"temp_lock", "max_lock", "stop_lock"}

\* C35: the session lock is held by a task only while the task is inside the
\* adjustment of the temperature, the max output tokens or the stop
\* sequences: every step that leaves such an adjustment releases it, a task
\* that waits for the lock does not hold it, and no task waits for the lock
\* for ever.
C35_LockNeverLeftHeld ==
  /\ [](\A t \in Tasks : lock = t => pc[t] \in LockedPcs)
  /\ [][\A t \in Tasks :
          /\ pc[t] \in LockedPcs /\ pc'[t] \notin LockedPcs
               => lock = t /\ lock' = 0
          /\ pc[t] \in LockWaitPcs /\ pc'[t] # pc[t] => lock = 0]_vars
  /\ \A t \in Tasks : []<>(pc[t] \notin LockWaitPcs)

\* C35 happens: task 1 has left the adjustment of its stop sequences, the
\* last that takes the lock, and task 2, which was waiting, holds the lock.
C35_Witness ==
  /\ pc[1] = "after_stop"
  /\ lock = 2
  /\ pc[2] \in LockedPcs

\* The awaits of the adjustment that owns a cache entry
OwnerPcs(field) ==
  CASE field = "temperature" ->
         {"temp_lock", "temp_visible", "temp_read", "temp_fill", "temp_verify"}
    [] field = "max_output_tokens" ->
         {"max_lock", "max_visible", "max_read", "max_fill", "max_verify"}
    [] field = "stop_sequences" ->
         {"stop_lock", "stop_count", "stop_remove", "stop_visible", "stop_add"}

\* C36: a cache entry is changed only by a step of the adjustment of its own
\* field; the steps of the other adjustments, of top-p, the thinking budget
\* and the toggles, of clear_chat_history, submit_prompt and get_response
\* leave it as it is.
C36_OnlyOwnEntryChanges ==
  [][\A field \in DOMAIN Cache0 :
       cache'[field] # cache[field]
         => \E t \in Tasks : pc[t] \in OwnerPcs(field) /\ pc'[t] # pc[t]]_vars

\* C36 happens: the adjustment of the max output tokens failed and dropped
\* its entry, and the temperature stored before is still in the cache.
C36_Witness ==
  /\ adj[1].field = "max_output_tokens"
  /\ adj[1].end \in FailedEnds
  /\ cache.max_output_tokens = None
  /\ cache.temperature # None

\* C37: in one upload the files are handed to a file input or to a file
\* chooser at most once.
C37_FilesAssignedAtMostOnce ==
  \A t \in Tasks : call[t].assignments <= 1

\* C38: when no enabled function button was found, no upload method is
\* tried and no file is handed to the page, the upload raises nothing and
\* the call goes on to the wait for the submit button.
C38_NoFunctionButtonNoUpload ==
  /\ [](\A t \in Tasks :
          call[t].function_btn = "not_found"
            => /\ call[t].methods = <<>>
               /\ call[t].assignments = 0
               /\ pc[t] \notin UploadPcs)
  /\ [][\A t \in Tasks :
          pc[t] = "upload_function_button" /\ call'[t].function_btn = "not_found"
            => pc'[t] = "submit_enabled" /\ call'[t].result = "running"]_vars

\* C38 happens: no function button was found, no method was tried, and the
\* prompt was submitted with the click on the submit button.
C38_Witness ==
  /\ call[1].op = "submit_prompt"
  /\ call[1].function_btn = "not_found"
  /\ call[1].methods = <<>>
  /\ call[1].click = "ok"
  /\ call[1].result = "ok"

\* A loop task that is not done, and one that moreover was not cancelled
NotDone(l) == l.pc \in {"new", "sleep", "error_sleep"}
Live(l) == NotDone(l) /\ ~l.must_cancel

\* C39: whatever calls of start_cleanup_service and stop_cleanup_service
\* were made, at most one loop task is live; a loop task that was cancelled
\* and is not done yet is awaited by a stop in progress, so that with no
\* stop in progress at most one loop task is not done; a start that finds
\* the service running creates no task, and a stop that finds it not
\* running changes nothing of the service.
C39_AtMostOneLoop ==
  /\ [](/\ Cardinality({i \in Loops : Live(svc.loops[i])}) <= 1
        /\ svc.awaiting = {}
             => Cardinality({i \in Loops : NotDone(svc.loops[i])}) <= 1)
  /\ [][/\ svc'.turn # svc.turn /\ svc'.last = "start" /\ svc'.found
             => /\ svc'.loops = svc.loops
                /\ svc'.cleanup_task = svc.cleanup_task
                /\ svc'.is_running
        /\ svc'.turn # svc.turn /\ svc'.last = "stop" /\ ~svc'.found
             => /\ svc'.loops = svc.loops
                /\ svc'.cleanup_task = svc.cleanup_task
                /\ svc'.awaiting = svc.awaiting
                /\ ~svc'.is_running]_vars

\* C39 happens: the service was stopped and started again, and then start
\* was called once more while the loop of the second start was asleep: one
\* loop task is done, one is live.
C39_Witness ==
  /\ svc.last = "start"
  /\ svc.found
  /\ \E i, j \in Loops :
       /\ svc.loops[i].ended = "sleep"
       /\ svc.loops[j].pc = "sleep"
       /\ svc.loops[j].elapsed > 0

\* C40: the loop runs a sweep only when the whole interval has passed since
\* its task was created or since its last sweep, and never between the
\* return of a stop and the next start.
C40_SweepOnlyAfterIntervalAndNotStopped ==
  [][svc'.sweeps # svc.sweeps
       => /\ ~svc.quiet
          /\ svc.is_running
          /\ svc.loops[svc'.sweeper].since >= FILE_CLEANUP_INTERVAL_HOURS]_vars

\* C40 happens: a sweep raised, the loop was cancelled by a stop during the
\* sleep that follows an error, the stop has returned and the service was
\* not started since.
C40_Witness ==
  /\ svc.quiet
  /\ svc.awaiting = {}
  /\ svc.sweeps = 1
  /\ \E i \in Loops : svc.loops[i].ended = "error_sleep"
====
